---- MODULE Spec2Model ----
(***************************************************************************)
(* Model of the helpers library (trashpanda001/helpers).                   *)
(*                                                                         *)
(* URL parameter merge: encodeUrl (src/src/string.ts:166-184) and its      *)
(* variadic form encodeUrlParams (exercised by src/src/string.test.ts).    *)
(*                                                                         *)
(* Text is a sequence of tokens.  A token is one character ("/", "a"), a   *)
(* percent escape read as a unit ("%26"), a scheme with its colon          *)
(* ("https:") or the host of the throwaway base ("localhost").             *)
(* The platform classes URL and URLSearchParams that the code calls are    *)
(* modelled after the WHATWG URL Standard, restricted to this alphabet.    *)
(***************************************************************************)
EXTENDS Integers, Sequences, FiniteSets

(***************************************************************************)
(* Bounds of the model.                                                    *)
(***************************************************************************)
\* most parameter sources passed to one call
MaxSources == 2
\* most (key, value) entries over all sources of one call
MaxEntries == 2
\* items of an array, characters of a string, passed to chunkEvery
MaxItems == 4
\* largest chunk size passed to chunkEvery
MaxChunk == 5
\* elements of an array passed to findValue
MaxFind == 3
\* elements of an array passed to sortBy
MaxSort == 3
\* largest magnitude of an integer passed to a comparator
MaxNumber == 2
\* bits of the significand of a number (53 in an IEEE 754 double): every
\* integer below 2 ^ SignificandBits in magnitude is a number, larger ones
\* are rounded to that many significant bits
SignificandBits == 4
\* calls that write cookies, one after another
MaxCalls == 2
\* calls of debounced functions in a run of useRafDebounce
MaxRafCalls == 3
\* clicks in the life of a component that uses useClickOutside
MaxClicks == 3
\* renders after the first of a component that uses a hook
MaxRenders == 3
\* beforeunload events in the life of a component that uses useBeforeUnload
MaxUnloads == 2
\* change events of media queries in the life of a component
MaxChanges == 2
\* components that use useBodyClass or useBodyStyle at the same time
MaxComponents == 2
\* renders with new arguments of those components, in all
MaxBodyRenders == 1
\* the values Math.random() takes are k / RandomSteps for k below RandomSteps
RandomSteps == 4
\* calls of the function asyncCallback returned
MaxCancels == 2
\* keys in a path of getIn and putIn
MaxPath == 3

(***************************************************************************)
(* Text helpers.                                                           *)
(***************************************************************************)
RECURSIVE Flatten(_)
\* concatenation of a sequence of texts
Flatten(ss) ==
  IF ss = <<>> THEN <<>> ELSE Head(ss) \o Flatten(Tail(ss))

\* position of the first token of s that is in the set cs, 0 when none is
FirstOf(s, cs) ==
  IF \E i \in 1..Len(s) : s[i] \in cs
  THEN CHOOSE i \in 1..Len(s) : s[i] \in cs /\ \A j \in 1..(i - 1) : s[j] \notin cs
  ELSE 0

\* the text before the first token in cs (all of s when none is)
Before(s, cs) ==
  IF FirstOf(s, cs) = 0 THEN s ELSE SubSeq(s, 1, FirstOf(s, cs) - 1)

\* the text after the first token in cs (empty when none is)
After(s, cs) ==
  IF FirstOf(s, cs) = 0 THEN <<>> ELSE SubSeq(s, FirstOf(s, cs) + 1, Len(s))

RECURSIVE Split(_, _)
\* String.prototype.split on one separator: n separators give n + 1 pieces
Split(s, sep) ==
  IF FirstOf(s, {sep}) = 0 THEN <<s>>
  ELSE <<Before(s, {sep})>> \o Split(After(s, {sep}), sep)

RECURSIVE DropLeading(_, _)
\* s without its leading tokens in cs
DropLeading(s, cs) ==
  IF s # <<>> /\ Head(s) \in cs THEN DropLeading(Tail(s), cs) ELSE s

RECURSIVE DropTrailing(_, _)
\* s without its trailing tokens in cs
DropTrailing(s, cs) ==
  IF s # <<>> /\ s[Len(s)] \in cs
  THEN DropTrailing(SubSeq(s, 1, Len(s) - 1), cs) ELSE s

StartsWith(s, p) ==
  Len(s) >= Len(p) /\ SubSeq(s, 1, Len(p)) = p

(***************************************************************************)
(* application/x-www-form-urlencoded, the codec of URLSearchParams.        *)
(***************************************************************************)
\* the characters of the alphabet the serializer has to escape
FormEscapes ==
  [c \in {" ", "&", "=", "+", "/", "?", "#"} |->
     CASE c = " " -> "+"
       [] c = "&" -> "%26"
       [] c = "=" -> "%3D"
       [] c = "+" -> "%2B"
       [] c = "/" -> "%2F"
       [] c = "?" -> "%3F"
       [] c = "#" -> "%23"]

\* percent escapes the parsers decode
PercentEscapes ==
  [e \in {"%20", "%26", "%3D", "%2B", "%2F", "%3F", "%23"} |->
     CASE e = "%20" -> " "
       [] e = "%26" -> "&"
       [] e = "%3D" -> "="
       [] e = "%2B" -> "+"
       [] e = "%2F" -> "/"
       [] e = "%3F" -> "?"
       [] e = "%23" -> "#"]

FormEncodeChar(c) == IF c \in DOMAIN FormEscapes THEN FormEscapes[c] ELSE c

FormDecodeToken(t) ==
  IF t = "+" THEN " "
  ELSE IF t \in DOMAIN PercentEscapes THEN PercentEscapes[t] ELSE t

FormEncode(s) == [i \in 1..Len(s) |-> FormEncodeChar(s[i])]

FormDecode(s) == [i \in 1..Len(s) |-> FormDecodeToken(s[i])]

\* one name=value piece of a query string to a <<name, value>> tuple
ParsePiece(piece) ==
  <<FormDecode(Before(piece, {"="})), FormDecode(After(piece, {"="}))>>

RECURSIVE ParsePieces(_)
ParsePieces(pieces) ==
  IF pieces = <<>> THEN <<>>
  ELSE IF Head(pieces) = <<>> THEN ParsePieces(Tail(pieces))
  ELSE <<ParsePiece(Head(pieces))>> \o ParsePieces(Tail(pieces))

\* the urlencoded parser: split on "&", skip empty pieces, split each at its
\* first "=", turn "+" into a space and percent-decode name and value
FormParse(query) == ParsePieces(Split(query, "&"))

RECURSIVE FormSerialize(_)
\* the urlencoded serializer: name=value pieces joined by "&"
FormSerialize(list) ==
  IF list = <<>> THEN <<>>
  ELSE FormEncode(Head(list)[1]) \o <<"=">> \o FormEncode(Head(list)[2])
       \o (IF Tail(list) = <<>> THEN <<>> ELSE <<"&">> \o FormSerialize(Tail(list)))

(***************************************************************************)
(* The platform class URL (WHATWG URL Standard) for http and https URLs.   *)
(* A URL record holds the scheme token, the host, the path as a list of    *)
(* segments, the optional query and fragment, and the list of its          *)
(* searchParams object.                                                    *)
(***************************************************************************)
None == [some |-> FALSE, text |-> <<>>]

Some(t) == [some |-> TRUE, text |-> t]

SchemeTokens == {"http:", "https:"}

\* the letters hosts are made of in this model
HostLetters == {"h", "p", "x", "localhost"}

\* the host parser: an empty host and a forbidden host code point (the space)
\* are failures
ValidHost(h) == h # <<>> /\ \A i \in 1..Len(h) : h[i] \in HostLetters

\* percent-encoding of the path, query and fragment states: of this alphabet
\* only the space is in their encode sets
UrlEscape(s) == [i \in 1..Len(s) |-> IF s[i] = " " THEN "%20" ELSE s[i]]

\* new URL("http://localhost"), the base relative input is parsed against
LocalBase ==
  [scheme |-> "http:", host |-> <<"localhost">>, path |-> << <<>> >>,
   query |-> None, fragment |-> None, params |-> <<>>]

\* what a failed parse leaves: the constructor throws a TypeError
NoUrl ==
  [scheme |-> "", host |-> <<>>, path |-> <<>>,
   query |-> None, fragment |-> None, params |-> <<>>]

ParseFailure == [ok |-> FALSE, url |-> NoUrl]

RECURSIVE PathSegments(_, _)
\* path state: a ".." segment shortens the path, a "." segment is skipped,
\* either one appends an empty segment when it is the last one
PathSegments(segs, path) ==
  IF segs = <<>> THEN path
  ELSE LET seg == Head(segs)
           last == Tail(segs) = <<>>
           slot == IF last THEN << <<>> >> ELSE <<>>
       IN IF seg = <<".", ".">>
          THEN PathSegments(Tail(segs),
                 (IF path = <<>> THEN <<>> ELSE SubSeq(path, 1, Len(path) - 1)) \o slot)
          ELSE IF seg = <<".">>
          THEN PathSegments(Tail(segs), path \o slot)
          ELSE PathSegments(Tail(segs), Append(path, UrlEscape(seg)))

\* the text of s up to its query and fragment
PathText(s) == Before(Before(s, {"#"}), {"?"})

\* query state: the text between the first "?" and the first "#"
QueryOf(s) ==
  IF FirstOf(Before(s, {"#"}), {"?"}) = 0 THEN None
  ELSE Some(UrlEscape(After(Before(s, {"#"}), {"?"})))

\* fragment state: everything after the first "#"
FragmentOf(s) ==
  IF FirstOf(s, {"#"}) = 0 THEN None ELSE Some(UrlEscape(After(s, {"#"})))

\* a URL record with the searchParams list parsed from its query
WithParams(scheme, host, path, query, fragment) ==
  [scheme |-> scheme, host |-> host, path |-> path, query |-> query,
   fragment |-> fragment, params |-> FormParse(query.text)]

\* authority state and what follows: s starts right after the scheme or the
\* leading "//"; further slashes are ignored, the host runs to the next
\* "/", "?" or "#"
ParseAuthority(scheme, s) ==
  LET rest == DropLeading(s, {"/"})
      host == Before(rest, {"/", "?", "#"})
      tail == SubSeq(rest, Len(host) + 1, Len(rest))
      body == IF tail # <<>> /\ Head(tail) = "/" THEN Tail(tail) ELSE tail
  IN IF ~ValidHost(host) THEN ParseFailure
     ELSE [ok |-> TRUE,
           url |-> WithParams(scheme, host, PathSegments(Split(PathText(body), "/"), <<>>),
                              QueryOf(body), FragmentOf(body))]

\* relative state: s has no scheme and is resolved against LocalBase
ParseRelative(s) ==
  LET p == PathText(s)
  IN IF StartsWith(p, <<"/", "/">>) THEN ParseAuthority(LocalBase.scheme, s)
     ELSE [ok |-> TRUE,
           url |-> WithParams(LocalBase.scheme, LocalBase.host,
                     IF p = <<>> THEN LocalBase.path
                     ELSE IF Head(p) = "/" THEN PathSegments(Split(Tail(p), "/"), <<>>)
                     ELSE PathSegments(Split(p, "/"), <<>>),
                     QueryOf(s), FragmentOf(s))]

\* new URL(input, "http://localhost") when withBase, new URL(input) otherwise.
\* Leading and trailing spaces are stripped first.
ParseUrl(input, withBase) ==
  LET s == DropTrailing(DropLeading(input, {" "}), {" "})
  IN IF s # <<>> /\ Head(s) \in SchemeTokens
     THEN IF withBase /\ Head(s) = LocalBase.scheme /\ ~StartsWith(Tail(s), <<"/", "/">>)
          THEN ParseRelative(Tail(s))
          ELSE ParseAuthority(Head(s), Tail(s))
     ELSE IF withBase THEN ParseRelative(s) ELSE ParseFailure

\* URL.pathname
Pathname(u) == Flatten([i \in 1..Len(u.path) |-> <<"/">> \o u.path[i]])

\* URL.search: empty for a null or empty query
Search(u) == IF u.query.text = <<>> THEN <<>> ELSE <<"?">> \o u.query.text

\* URL.hash: empty for a null or empty fragment
Hash(u) == IF u.fragment.text = <<>> THEN <<>> ELSE <<"#">> \o u.fragment.text

\* URL.href, the URL serializer
Href(u) ==
  <<u.scheme, "/", "/">> \o u.host \o Pathname(u)
  \o (IF u.query.some THEN <<"?">> \o u.query.text ELSE <<>>)
  \o (IF u.fragment.some THEN <<"#">> \o u.fragment.text ELSE <<>>)

(***************************************************************************)
(* URLSearchParams of a URL: every change of the list rewrites the query   *)
(* of the URL (the update steps); an empty list makes the query null.      *)
(***************************************************************************)
Update(u, list) ==
  [u EXCEPT !.params = list,
            !.query = IF list = <<>> THEN None ELSE Some(FormSerialize(list))]

HasName(list, name) == \E i \in 1..Len(list) : list[i][1] = name

RECURSIVE RemoveName(_, _)
RemoveName(list, name) ==
  IF list = <<>> THEN <<>>
  ELSE IF Head(list)[1] = name THEN RemoveName(Tail(list), name)
  ELSE <<Head(list)>> \o RemoveName(Tail(list), name)

\* the list with the first tuple of that name set to value, the others removed
SetFirst(list, name, value) ==
  LET i == CHOOSE j \in 1..Len(list) :
             list[j][1] = name /\ \A k \in 1..(j - 1) : list[k][1] # name
  IN SubSeq(list, 1, i - 1) \o << <<name, value>> >>
     \o RemoveName(SubSeq(list, i + 1, Len(list)), name)

\* URLSearchParams.prototype.delete
SearchParamsDelete(u, name) == Update(u, RemoveName(u.params, name))

\* URLSearchParams.prototype.set
SearchParamsSet(u, name, value) ==
  Update(u, IF HasName(u.params, name) THEN SetFirst(u.params, name, value)
            ELSE Append(u.params, <<name, value>>))

(***************************************************************************)
(* Primitive values (src/src/types.ts) and their String() coercion.        *)
(***************************************************************************)
NullV == [t |-> "null", s |-> <<>>, n |-> 0, b |-> FALSE]

UndefinedV == [t |-> "undefined", s |-> <<>>, n |-> 0, b |-> FALSE]

Str(s) == [t |-> "string", s |-> s, n |-> 0, b |-> FALSE]

Num(n) == [t |-> "number", s |-> <<>>, n |-> n, b |-> FALSE]

Bool(b) == [t |-> "boolean", s |-> <<>>, n |-> 0, b |-> b]

Digits == <<"0", "1", "2", "3", "4", "5", "6", "7", "8", "9">>

RECURSIVE Decimal(_)
\* Number.prototype.toString of a non-negative integer
Decimal(n) ==
  IF n < 10 THEN <<Digits[n + 1]>> ELSE Decimal(n \div 10) \o <<Digits[(n % 10) + 1]>>

\* String(value)
StringOf(v) ==
  CASE v.t = "string" -> v.s
    [] v.t = "number" -> Decimal(v.n)
    [] v.t = "boolean" -> IF v.b THEN <<"t", "r", "u", "e">> ELSE <<"f", "a", "l", "s", "e">>
    [] v.t = "null" -> <<"n", "u", "l", "l">>
    [] OTHER -> <<"u", "n", "d", "e", "f", "i", "n", "e", "d">>

\* value == null
IsNullish(v) == v.t \in {"null", "undefined"}

(***************************************************************************)
(* encodeUrl, src/src/string.ts:166-184.                                   *)
(* The first argument is a string, or a URL object whose state the caller  *)
(* holds: the call works on that very object (u = url).                    *)
(***************************************************************************)
\* /^https?:\/\//.test(url)
IsAbsoluteString(text) ==
  \E scheme \in SchemeTokens : StartsWith(text, <<scheme, "/", "/">>)

\* lines 167-175: isAbsolute
IsAbsolute(url) == url.kind = "URL" \/ IsAbsoluteString(url.text)

\* Construct that gives the URL constructor no base
Construct_noBase(url, object) ==
  IF url.kind = "URL" THEN [ok |-> TRUE, url |-> object]
  ELSE ParseUrl(url.text, FALSE)

\* lines 167-175: u, or the TypeError of the URL constructor
Construct(url, object) ==
  IF url.kind = "URL" THEN [ok |-> TRUE, url |-> object]
  ELSE ParseUrl(url.text, ~IsAbsoluteString(url.text))

\* ApplyEntry with value === null in place of value == null
ApplyEntry_strictNull(u, entry) ==
  IF entry[2].t = "null" THEN SearchParamsDelete(u, entry[1])
  ELSE SearchParamsSet(u, entry[1], StringOf(entry[2]))

\* ApplyEntry that removes the key before it sets it
ApplyEntry_moveToEnd(u, entry) ==
  IF IsNullish(entry[2]) THEN SearchParamsDelete(u, entry[1])
  ELSE SearchParamsSet(SearchParamsDelete(u, entry[1]), entry[1], StringOf(entry[2]))

\* lines 177-181: one [key, value] entry
ApplyEntry(u, entry) ==
  IF IsNullish(entry[2]) THEN SearchParamsDelete(u, entry[1])
  ELSE SearchParamsSet(u, entry[1], StringOf(entry[2]))

RECURSIVE ApplyEntries(_, _)
\* lines 176-182: forEach over the entries, in order
ApplyEntries(u, entries) ==
  IF entries = <<>> THEN u
  ELSE ApplyEntries(ApplyEntry(u, Head(entries)), Tail(entries))

\* Output with the fragment put before the query
Output_hashFirst(isAbsolute, u) ==
  IF isAbsolute THEN Href(u) ELSE Pathname(u) \o Hash(u) \o Search(u)

\* Output that leaves the query out of a relative result
Output_noSearch(isAbsolute, u) ==
  IF isAbsolute THEN Href(u) ELSE Pathname(u) \o Hash(u)

\* Output that returns the href for every base
Output_alwaysHref(isAbsolute, u) == Href(u)

\* Output that leaves the fragment out of the href
Output_dropHash(isAbsolute, u) ==
  IF isAbsolute THEN Href([u EXCEPT !.fragment = None])
  ELSE Pathname(u) \o Search(u) \o Hash(u)

\* line 183
Output(isAbsolute, u) ==
  IF isAbsolute THEN Href(u) ELSE Pathname(u) \o Search(u) \o Hash(u)

\* what a call leaves: it threw, or returned value; after is the state of
\* the caller's URL object when the call ends
Threw(object) == [threw |-> TRUE, value |-> <<>>, after |-> object]

Returned(value, object) == [threw |-> FALSE, value |-> value, after |-> object]

\* ObjectEntries in reverse order
ObjectEntries_reversed(params) ==
  [i \in 1..Len(params.entries) |-> params.entries[Len(params.entries) + 1 - i]]

\* Object.entries(params) of a Record: its own entries in insertion order
ObjectEntries(params) == params.entries

\* encodeUrl(url, params)
encodeUrl(url, object, params) ==
  LET c == Construct(url, object)
      u == ApplyEntries(c.url, ObjectEntries(params))
  IN IF ~c.ok THEN Threw(object)
     ELSE Returned(Output(IsAbsolute(url), u), IF url.kind = "URL" THEN u ELSE object)

(***************************************************************************)
(* encodeUrlParams(url, ...params): encodeUrl over any number of sources   *)
(* of any shape, applied in argument order to the same URL.                *)
(***************************************************************************)
Shapes == {"object", "array", "string", "?string", "URLSearchParams"}

\* a source: text is what a string source holds, entries what the others do
\* (for a string source, entries records the pairs its writer encoded)
Source(shape, entries, text) == [shape |-> shape, entries |-> entries, text |-> text]

\* new URLSearchParams(text): one leading "?" is dropped
StringEntries(text) ==
  LET list == FormParse(IF text # <<>> /\ Head(text) = "?" THEN Tail(text) ELSE text)
  IN [i \in 1..Len(list) |-> <<list[i][1], Str(list[i][2])>>]

\* the ordered [key, value] entries of a source
Entries(source) ==
  IF source.shape \in {"string", "?string"} THEN StringEntries(source.text)
  ELSE IF source.shape = "object" THEN ObjectEntries(source)
  ELSE source.entries

RECURSIVE ApplySources(_, _)
ApplySources(u, sources) ==
  IF sources = <<>> THEN u
  ELSE ApplySources(ApplyEntries(u, Entries(Head(sources))), Tail(sources))

encodeUrlParams(url, object, sources) ==
  LET c == Construct(url, object)
      u == ApplySources(c.url, sources)
  IN IF ~c.ok THEN Threw(object)
     ELSE Returned(Output(IsAbsolute(url), u), IF url.kind = "URL" THEN u ELSE object)

(***************************************************************************)
(* The arguments the calls are checked on.                                 *)
(* A base is a head (scheme, authority, path) followed by an optional      *)
(* query and an optional fragment; the parsers above read the joined text. *)
(* Base texts are URL strings as callers write them (no raw space outside  *)
(* the malformed authorities).                                             *)
(***************************************************************************)
\* heads that fail the scheme check of line 173
RelativeHeads ==
  { <<"/", "p">>, <<"/">>, <<>>, <<"p">>, <<"/", "p", "/">>,
    <<"/", "x", "/", ".", ".", "/", "p">>,
    <<"/", ".", "/", "/", "p">>, <<"/", ".", "/", "/">>,
    <<"/", "/", "h", "/", "p">>, <<"/", "/">>, <<"/", "/", "h", " ", "h", "/", "p">>,
    <<"http:", "/", "p">>, <<"https:", "/", "h", "/", "p">>,
    <<" ", "https:", "/", "/", "h", "/", "p">> }

\* heads that pass it and parse
AbsoluteHeads ==
  { <<"https:", "/", "/", "h", "/", "p">>, <<"https:", "/", "/", "h">>,
    <<"http:", "/", "/", "h", "/", "x", "/", ".", ".", "/", "p">> }

\* heads that pass it and have a malformed authority
MalformedHeads ==
  { <<"https:", "/", "/">>, <<"https:", "/", "/", "h", " ", "h", "/", "p">> }

PlainQueries ==
  { <<>>, <<"?">>, <<"?", "a", "=", "1">>, <<"?", "a", "&", "b", "=", "x", "+", "%26">> }

MergeQueries ==
  { <<>>, <<"?", "a", "=", "1">>, <<"?", "a", "=", "1", "&", "b", "=", "2">>,
    <<"?", "b", "=", "2", "&", "a", "=", "1">>, <<"?", "a", "=", "1", "&", "a", "=", "3">> }

Fragments ==
  { <<>>, <<"#">>, <<"#", "f">>, <<"#", "f", "#", "?", "a">> }

StringUrl(text) == [kind |-> "string", text |-> text]

\* a URL object the caller made with new URL(text)
ObjectUrl(text) == [kind |-> "URL", text |-> text]

Texts(heads, queries, fragments) ==
  {h \o q \o f : h \in heads, q \in queries, f \in fragments}

Keys == {<<"a">>, <<"b">>}

SeqsUpTo(S, n) == UNION {[1..k -> S] : k \in 0..n}

\* the ways to cut a list of entries into k consecutive sources
SplitInto(flat, k) ==
  { [i \in 1..k |-> SubSeq(flat, (IF i = 1 THEN 0 ELSE c[i - 1]) + 1, c[i])] :
      c \in {d \in [1..k -> 0..Len(flat)] :
               d[k] = Len(flat) /\ \A i \in 1..(k - 1) : d[i] <= d[i + 1]} }

\* the entries of at most MaxSources sources, at most MaxEntries in all
EntryLists(options) ==
  {<<>>} \cup UNION {SplitInto(flat, k) :
                       flat \in SeqsUpTo(options, MaxEntries), k \in 1..MaxSources}

UniqueKeys(entries) ==
  \A i, j \in 1..Len(entries) : entries[i][1] = entries[j][1] => i = j

\* what a shape can carry: an object has each key once, a query string and a
\* URLSearchParams hold strings
Carries(shape, entries) ==
  CASE shape = "object" -> UniqueKeys(entries)
    [] shape = "array" -> TRUE
    [] OTHER -> \A i \in 1..Len(entries) : entries[i][2].t = "string"

StringPairs(entries) ==
  [i \in 1..Len(entries) |-> <<entries[i][1], StringOf(entries[i][2])>>]

\* the argument a caller builds to pass these entries in that shape
AsShape(shape, entries) ==
  CASE shape = "string" -> Source(shape, entries, FormSerialize(StringPairs(entries)))
    [] shape = "?string" -> Source(shape, entries, <<"?">> \o FormSerialize(StringPairs(entries)))
    [] OTHER -> Source(shape, entries, <<>>)

\* the sources of the lists, each source in every shape that can carry it
Shaped(lists, shapes) ==
  { [i \in 1..Len(p[1]) |-> AsShape(p[2][i], p[1][i])] :
      p \in { q \in lists \X SeqsUpTo(shapes, MaxSources) :
                /\ Len(q[1]) = Len(q[2])
                /\ \A i \in 1..Len(q[1]) : Carries(q[2][i], q[1][i]) } }

\* every form of base, with at most one object of at most one entry
PlainEntries ==
  { <<<<"a">>, NullV>>, <<<<"a">>, UndefinedV>>, <<<<"a">>, Str(<<"2">>)>>,
    <<<<"a">>, Num(1)>>, <<<<"b">>, Bool(TRUE)>> }

PlainInputs ==
  ( {StringUrl(x) : x \in Texts(RelativeHeads \cup AbsoluteHeads \cup MalformedHeads,
                                PlainQueries, Fragments)}
    \cup {ObjectUrl(x) : x \in Texts(AbsoluteHeads, PlainQueries, Fragments)} )
  \X ( {<<>>, <<AsShape("object", <<>>)>>}
       \cup {<<AsShape("object", <<e>>)>> : e \in PlainEntries} )

\* every order of writes and removals, on bases with a query
MergeEntries == Keys \X {NullV, Num(20), Str(<<"x", " ", "&">>)}

MergeInputs ==
  ( {StringUrl(x) : x \in Texts({<<"/", "p">>}, MergeQueries, {<<"#", "f">>})}
    \cup {ObjectUrl(x) : x \in Texts({<<"https:", "/", "/", "h", "/", "p">>}, MergeQueries, {<<>>})} )
  \X Shaped(EntryLists(MergeEntries), {"array"})

\* every shape of source
ShapeEntries == {<<<<"a">>, Str(<<"2">>)>>, <<<<"b">>, Str(<<"x", " ", "&">>)>>,
                 <<<<"?", "a">>, Str(<<"=">>)>>}

ShapeInputs ==
  {StringUrl(<<"/", "p", "?", "a", "=", "1", "#", "f">>)}
  \X Shaped(EntryLists(ShapeEntries), Shapes)

\* every form of base, with two objects of one entry each
ChainInputs ==
  ( {StringUrl(x) : x \in Texts(RelativeHeads \cup AbsoluteHeads \cup MalformedHeads,
                                {<<>>, <<"?", "a", "=", "1">>}, {<<>>, <<"#", "f">>})}
    \cup {ObjectUrl(x) : x \in Texts(AbsoluteHeads, {<<"?", "a", "=", "1">>}, {<<"#", "f">>})} )
  \X { <<AsShape("object", << <<<<"a">>, Str(<<"2">>)>> >>),
         AsShape("object", << <<<<"b">>, Bool(TRUE)>> >>)>>,
       <<AsShape("object", << <<<<"a">>, NullV>> >>),
         AsShape("object", << <<<<"a">>, Num(1)>> >>)>> }

Inputs == PlainInputs \cup MergeInputs \cup ShapeInputs \cup ChainInputs

(***************************************************************************)
(* The calls.                                                              *)
(***************************************************************************)
\* encodeUrl, encodeUrlParams (string.ts)
VARIABLES
  url,        \* the first argument: a string or the caller's URL object
  urlObject,  \* the state of that URL object (NoUrl for a string)
  sources,    \* the parameter sources, in argument order
  pc,         \* "args", "returned", "reapplied", "repeated"
  result,     \* what the call left
  again       \* what the second call left

urlVars == <<url, urlObject, sources, pc, result, again>>

\* chunkEvery (array.ts, string.ts)
VARIABLES
  chunkInput,   \* the first argument: an array or a string, as its items
  chunkSize,    \* the second argument, a number
  chunkPc,      \* "args", "returned", "threw"
  chunkResult   \* the returned chunks

chunkVars == <<chunkInput, chunkSize, chunkPc, chunkResult>>

\* findValue (array.ts)
VARIABLES
  findArray,   \* the array searched
  findFn,      \* fn: what it returns for each element
  findI,       \* the loop index i
  findCalls,   \* the elements fn was invoked on, in order
  findPc,      \* "loop", "returned"
  findResult   \* the returned value

findVars == <<findArray, findFn, findI, findCalls, findPc, findResult>>

\* sortBy (array.ts)
VARIABLES
  sortArray,      \* the caller's array
  sortGiven,      \* that array as it was passed
  sortMapFn,      \* mapFn: the value it maps each element to
  sortCompareFn,  \* compareFn, by name
  sortPc,         \* "args", "returned"
  sortResult      \* the returned array

sortVars == <<sortArray, sortGiven, sortMapFn, sortCompareFn, sortPc, sortResult>>

\* compareBooleansAsc/Desc, compareNumbersAsc/Desc (comparators.ts)
VARIABLES
  cmpTarget,  \* the first argument
  cmpOther,   \* the second argument
  cmpFn,      \* the comparator called, by name
  cmpPc,      \* "args", "returned"
  cmpResult   \* the returned number

cmpVars == <<cmpTarget, cmpOther, cmpFn, cmpPc, cmpResult>>

\* mod (number.ts)
VARIABLES
  modDividend,  \* the first argument, an integer
  modDivisor,   \* the second argument, an integer
  modPc,        \* "args", "returned", "threw"
  modResult     \* the returned number

modVars == <<modDividend, modDivisor, modPc, modResult>>

\* setCookie, deleteCookie, nukeCookie, getCookie, hasCookie (cookies.ts)
VARIABLES
  ckLocation,  \* window.location, or no window during SSR
  ckJar,       \* the cookies the browser holds, in creation order
  ckCall,      \* the last call: function and arguments
  ckWrites,    \* the strings that call assigned to document.cookie
  ckReturn,    \* what that call returned
  ckCalls      \* the number of calls made

cookieVars == <<ckLocation, ckJar, ckCall, ckWrites, ckReturn, ckCalls>>

\* useRafDebounce (react hooks)
VARIABLES
  handleRef,      \* handleRef.current
  rafRequests,    \* the frame requests not yet run or cancelled, oldest first
  rafNextHandle,  \* the handle the next requestAnimationFrame returns
  rafCallback,    \* the callback of the latest render
  rafFunctions,   \* the callbacks whose debounced function a render returned
  rafInvoked,     \* the invocations of callbacks so far, oldest first
  rafCalls,       \* the calls of debounced functions since the last frame
  rafLast         \* the last step taken

rafVars == <<handleRef, rafRequests, rafNextHandle, rafCallback, rafFunctions, rafInvoked, rafCalls, rafLast>>

\* useClickOutside (react hooks)
VARIABLES
  clkPhase,      \* the component: "new", "mounted" or "unmounted"
  elementRef,    \* elementRef.current: a node, or "null"
  callbackRef,   \* callbackRef.current
  clkRendered,   \* the onClickOutside of the latest render
  clkListeners,  \* the event listeners of document
  clkInvoked,    \* the invocations of callbacks so far, oldest first
  clkLast,       \* the last step taken
  clkClicks      \* the number of clicks so far

clickVars == <<clkPhase, elementRef, callbackRef, clkRendered, clkListeners, clkInvoked, clkLast, clkClicks>>

\* useBeforeUnload (react hooks)
VARIABLES
  buPhase,        \* the component: "new", "mounted" or "unmounted"
  buEnabled,      \* the enabled argument of the latest render
  buCallbackRef,  \* callbackRef.current
  buRendered,     \* the callback argument of the latest render
  buListeners,    \* the event listeners of window
  buEffects,      \* the number of runs of the effect so far
  buCleanup,      \* the run of the effect whose cleanup is pending, 0 for none
  buInvoked,      \* the invocations of callbacks so far, oldest first
  buLast,         \* the last step taken
  buRenders,      \* the number of renders after the first
  buEvents        \* the number of beforeunload events so far

unloadVars == <<buPhase, buEnabled, buCallbackRef, buRendered, buListeners, buEffects, buCleanup, buInvoked, buLast, buRenders, buEvents>>

\* useMediaQuery (react hooks)
VARIABLES
  mqPhase,      \* the component: "new", "mounted" or "unmounted"
  mqMatches,    \* whether each media query matches now
  mqQuery,      \* the query argument of the latest render
  mqValue,      \* the state of useState
  mqReturns,    \* what the renders returned, oldest first
  mqListeners,  \* the change listeners on media query lists
  mqEffects,    \* the number of runs of the effect so far
  mqLast,       \* the last step taken
  mqRenders,    \* the number of renders with a new argument
  mqChanges     \* the number of change events so far

mediaVars == <<mqPhase, mqMatches, mqQuery, mqValue, mqReturns, mqListeners, mqEffects, mqLast, mqRenders, mqChanges>>

\* useBodyClass, useBodyStyle (react hooks)
VARIABLES
  bdDocument,    \* body className, html className and body style.cssText
  bdOriginal,    \* what they were before any component mounted
  bdComponents,  \* the components that use the hooks
  bdLast,        \* the last step taken
  bdRenders      \* the number of renders with new arguments

bodyVars == <<bdDocument, bdOriginal, bdComponents, bdLast, bdRenders>>

\* asyncCallback (function.ts)
VARIABLES
  acCall,     \* the arguments of the call, once it was made
  acDelay,    \* the delay given to setTimeout, in RandomSteps-ths of a millisecond
  acTimers,   \* the timers that are set and have neither fired nor been cleared
  acInvoked,  \* the number of invocations of the callback
  acCancels,  \* the number of calls of the returned function
  acLast      \* the last step taken

asyncVars == <<acCall, acDelay, acTimers, acInvoked, acCancels, acLast>>

\* getIn, putIn (object.ts)
VARIABLES
  ptObject,  \* the caller's object
  ptGiven,   \* that object as it was passed
  ptPath,    \* the path argument
  ptValue,   \* the value argument
  ptPc,      \* "args", "returned", "threw", "read"
  ptGot      \* what getIn returned

putVars == <<ptObject, ptGiven, ptPath, ptValue, ptPc, ptGot>>

vars == <<urlVars, chunkVars, findVars, sortVars, cmpVars, modVars, cookieVars, rafVars, clickVars, unloadVars, mediaVars, bodyVars, asyncVars, putVars>>

NoResult == Returned(<<>>, NoUrl)

\* no call of the module is under way
UrlIdle ==
  /\ url = StringUrl(<<>>)
  /\ urlObject = NoUrl
  /\ sources = <<>>
  /\ pc = "idle"
  /\ result = NoResult
  /\ again = NoResult

ChunkIdle ==
  /\ chunkInput = [kind |-> "array", items |-> <<>>]
  /\ chunkSize = [kind |-> "integer", n |-> 1]
  /\ chunkPc = "idle"
  /\ chunkResult = <<>>

FindIdle ==
  /\ findArray = <<>>
  /\ findFn = <<>>
  /\ findI = 0
  /\ findCalls = <<>>
  /\ findPc = "idle"
  /\ findResult = "undefined"

SortIdle ==
  /\ sortArray = <<>>
  /\ sortGiven = <<>>
  /\ sortMapFn = <<>>
  /\ sortCompareFn = "none"
  /\ sortPc = "idle"
  /\ sortResult = <<>>

CmpIdle ==
  /\ cmpTarget = [kind |-> "null", n |-> 0]
  /\ cmpOther = [kind |-> "null", n |-> 0]
  /\ cmpFn = "none"
  /\ cmpPc = "idle"
  /\ cmpResult = [kind |-> "integer", n |-> 0]

ModIdle ==
  /\ modDividend = 0
  /\ modDivisor = 1
  /\ modPc = "idle"
  /\ modResult = 0

CookieIdle ==
  /\ ckLocation = [isSSR |-> TRUE, protocol |-> "", hostname |-> <<>>, pathname |-> <<>>]
  /\ ckJar = <<>>
  /\ ckCall = [fn |-> "none"]
  /\ ckWrites = <<>>
  /\ ckReturn = [threw |-> FALSE, value |-> <<>>]
  /\ ckCalls = 0

RafIdle ==
  /\ handleRef = 0
  /\ rafRequests = <<>>
  /\ rafNextHandle = 1
  /\ rafCallback = ""
  /\ rafFunctions = {}
  /\ rafInvoked = <<>>
  /\ rafCalls = <<>>
  /\ rafLast = "none"

ClickIdle ==
  /\ clkPhase = "new"
  /\ elementRef = "null"
  /\ callbackRef = ""
  /\ clkRendered = ""
  /\ clkListeners = {}
  /\ clkInvoked = <<>>
  /\ clkLast = [op |-> "none"]
  /\ clkClicks = 0

UnloadIdle ==
  /\ buPhase = "new"
  /\ buEnabled = FALSE
  /\ buCallbackRef = ""
  /\ buRendered = ""
  /\ buListeners = {}
  /\ buEffects = 0
  /\ buCleanup = 0
  /\ buInvoked = <<>>
  /\ buLast = "none"
  /\ buRenders = 0
  /\ buEvents = 0

MediaIdle ==
  /\ mqPhase = "new"
  /\ mqMatches = <<>>
  /\ mqQuery = ""
  /\ mqValue = FALSE
  /\ mqReturns = <<>>
  /\ mqListeners = {}
  /\ mqEffects = 0
  /\ mqLast = [op |-> "none"]
  /\ mqRenders = 0
  /\ mqChanges = 0

BodyIdle ==
  /\ bdDocument = [body |-> <<>>, html |-> <<>>, css |-> <<>>]
  /\ bdOriginal = [body |-> <<>>, html |-> <<>>, css |-> <<>>]
  /\ bdComponents = <<>>
  /\ bdLast = "none"
  /\ bdRenders = 0

AsyncIdle ==
  /\ acCall = [made |-> FALSE]
  /\ acDelay = 0
  /\ acTimers = {}
  /\ acInvoked = 0
  /\ acCancels = 0
  /\ acLast = "none"

PutIdle ==
  /\ ptObject = [t |-> "undefined", n |-> 0, keys |-> <<>>, kids |-> <<>>]
  /\ ptGiven = [t |-> "undefined", n |-> 0, keys |-> <<>>, kids |-> <<>>]
  /\ ptPath = <<>>
  /\ ptValue = [t |-> "undefined", n |-> 0, keys |-> <<>>, kids |-> <<>>]
  /\ ptPc = "idle"
  /\ ptGot = [t |-> "undefined", n |-> 0, keys |-> <<>>, kids |-> <<>>]

\* the variables of the other modules, which a call leaves alone, and
\* their values while no call of those modules is under way
NotUrl == <<chunkVars, findVars, sortVars, cmpVars, modVars, cookieVars, rafVars, clickVars, unloadVars, mediaVars, bodyVars, asyncVars, putVars>>

NotUrlIdle == ChunkIdle /\ FindIdle /\ SortIdle /\ CmpIdle /\ ModIdle /\ CookieIdle /\ RafIdle /\ ClickIdle /\ UnloadIdle /\ MediaIdle /\ BodyIdle /\ AsyncIdle /\ PutIdle

NotChunk == <<urlVars, findVars, sortVars, cmpVars, modVars, cookieVars, rafVars, clickVars, unloadVars, mediaVars, bodyVars, asyncVars, putVars>>

NotChunkIdle == UrlIdle /\ FindIdle /\ SortIdle /\ CmpIdle /\ ModIdle /\ CookieIdle /\ RafIdle /\ ClickIdle /\ UnloadIdle /\ MediaIdle /\ BodyIdle /\ AsyncIdle /\ PutIdle

NotFind == <<urlVars, chunkVars, sortVars, cmpVars, modVars, cookieVars, rafVars, clickVars, unloadVars, mediaVars, bodyVars, asyncVars, putVars>>

NotFindIdle == UrlIdle /\ ChunkIdle /\ SortIdle /\ CmpIdle /\ ModIdle /\ CookieIdle /\ RafIdle /\ ClickIdle /\ UnloadIdle /\ MediaIdle /\ BodyIdle /\ AsyncIdle /\ PutIdle

NotSort == <<urlVars, chunkVars, findVars, cmpVars, modVars, cookieVars, rafVars, clickVars, unloadVars, mediaVars, bodyVars, asyncVars, putVars>>

NotSortIdle == UrlIdle /\ ChunkIdle /\ FindIdle /\ CmpIdle /\ ModIdle /\ CookieIdle /\ RafIdle /\ ClickIdle /\ UnloadIdle /\ MediaIdle /\ BodyIdle /\ AsyncIdle /\ PutIdle

NotCmp == <<urlVars, chunkVars, findVars, sortVars, modVars, cookieVars, rafVars, clickVars, unloadVars, mediaVars, bodyVars, asyncVars, putVars>>

NotCmpIdle == UrlIdle /\ ChunkIdle /\ FindIdle /\ SortIdle /\ ModIdle /\ CookieIdle /\ RafIdle /\ ClickIdle /\ UnloadIdle /\ MediaIdle /\ BodyIdle /\ AsyncIdle /\ PutIdle

NotMod == <<urlVars, chunkVars, findVars, sortVars, cmpVars, cookieVars, rafVars, clickVars, unloadVars, mediaVars, bodyVars, asyncVars, putVars>>

NotModIdle == UrlIdle /\ ChunkIdle /\ FindIdle /\ SortIdle /\ CmpIdle /\ CookieIdle /\ RafIdle /\ ClickIdle /\ UnloadIdle /\ MediaIdle /\ BodyIdle /\ AsyncIdle /\ PutIdle

NotCookie == <<urlVars, chunkVars, findVars, sortVars, cmpVars, modVars, rafVars, clickVars, unloadVars, mediaVars, bodyVars, asyncVars, putVars>>

NotCookieIdle == UrlIdle /\ ChunkIdle /\ FindIdle /\ SortIdle /\ CmpIdle /\ ModIdle /\ RafIdle /\ ClickIdle /\ UnloadIdle /\ MediaIdle /\ BodyIdle /\ AsyncIdle /\ PutIdle

NotRaf == <<urlVars, chunkVars, findVars, sortVars, cmpVars, modVars, cookieVars, clickVars, unloadVars, mediaVars, bodyVars, asyncVars, putVars>>

NotRafIdle == UrlIdle /\ ChunkIdle /\ FindIdle /\ SortIdle /\ CmpIdle /\ ModIdle /\ CookieIdle /\ ClickIdle /\ UnloadIdle /\ MediaIdle /\ BodyIdle /\ AsyncIdle /\ PutIdle

NotClick == <<urlVars, chunkVars, findVars, sortVars, cmpVars, modVars, cookieVars, rafVars, unloadVars, mediaVars, bodyVars, asyncVars, putVars>>

NotClickIdle == UrlIdle /\ ChunkIdle /\ FindIdle /\ SortIdle /\ CmpIdle /\ ModIdle /\ CookieIdle /\ RafIdle /\ UnloadIdle /\ MediaIdle /\ BodyIdle /\ AsyncIdle /\ PutIdle

NotUnload == <<urlVars, chunkVars, findVars, sortVars, cmpVars, modVars, cookieVars, rafVars, clickVars, mediaVars, bodyVars, asyncVars, putVars>>

NotUnloadIdle == UrlIdle /\ ChunkIdle /\ FindIdle /\ SortIdle /\ CmpIdle /\ ModIdle /\ CookieIdle /\ RafIdle /\ ClickIdle /\ MediaIdle /\ BodyIdle /\ AsyncIdle /\ PutIdle

NotMedia == <<urlVars, chunkVars, findVars, sortVars, cmpVars, modVars, cookieVars, rafVars, clickVars, unloadVars, bodyVars, asyncVars, putVars>>

NotMediaIdle == UrlIdle /\ ChunkIdle /\ FindIdle /\ SortIdle /\ CmpIdle /\ ModIdle /\ CookieIdle /\ RafIdle /\ ClickIdle /\ UnloadIdle /\ BodyIdle /\ AsyncIdle /\ PutIdle

NotBody == <<urlVars, chunkVars, findVars, sortVars, cmpVars, modVars, cookieVars, rafVars, clickVars, unloadVars, mediaVars, asyncVars, putVars>>

NotBodyIdle == UrlIdle /\ ChunkIdle /\ FindIdle /\ SortIdle /\ CmpIdle /\ ModIdle /\ CookieIdle /\ RafIdle /\ ClickIdle /\ UnloadIdle /\ MediaIdle /\ AsyncIdle /\ PutIdle

NotAsync == <<urlVars, chunkVars, findVars, sortVars, cmpVars, modVars, cookieVars, rafVars, clickVars, unloadVars, mediaVars, bodyVars, putVars>>

NotAsyncIdle == UrlIdle /\ ChunkIdle /\ FindIdle /\ SortIdle /\ CmpIdle /\ ModIdle /\ CookieIdle /\ RafIdle /\ ClickIdle /\ UnloadIdle /\ MediaIdle /\ BodyIdle /\ PutIdle

NotPut == <<urlVars, chunkVars, findVars, sortVars, cmpVars, modVars, cookieVars, rafVars, clickVars, unloadVars, mediaVars, bodyVars, asyncVars>>

NotPutIdle == UrlIdle /\ ChunkIdle /\ FindIdle /\ SortIdle /\ CmpIdle /\ ModIdle /\ CookieIdle /\ RafIdle /\ ClickIdle /\ UnloadIdle /\ MediaIdle /\ BodyIdle /\ AsyncIdle

\* the URL object as its constructor left it
Constructed(u) == IF u.kind = "URL" THEN ParseUrl(u.text, FALSE).url ELSE NoUrl

Init ==
  /\ \E in \in Inputs : url = in[1] /\ sources = in[2]
  /\ urlObject = Constructed(url)
  /\ pc = "args"
  /\ result = NoResult
  /\ again = NoResult
  /\ NotUrlIdle

\* encodeUrl(url) and encodeUrl(url, params) with a Record
CallEncodeUrl ==
  /\ pc = "args"
  /\ Len(sources) <= 1
  /\ \A i \in 1..Len(sources) : sources[i].shape = "object"
  /\ result' = encodeUrl(url, urlObject,
                         IF sources = <<>> THEN AsShape("object", <<>>) ELSE sources[1])
  /\ urlObject' = result'.after
  /\ pc' = "returned"
  /\ UNCHANGED <<url, sources, again>>
  /\ UNCHANGED NotUrl

\* encodeUrlParams(url, ...sources)
CallEncodeUrlParams ==
  /\ pc = "args"
  /\ result' = encodeUrlParams(url, urlObject, sources)
  /\ urlObject' = result'.after
  /\ pc' = "returned"
  /\ UNCHANGED <<url, sources, again>>
  /\ UNCHANGED NotUrl

\* the returned string is passed back with the same sources
Reapply ==
  /\ pc = "returned"
  /\ ~result.threw
  /\ again' = encodeUrlParams(StringUrl(result.value), NoUrl, sources)
  /\ pc' = "reapplied"
  /\ UNCHANGED <<url, urlObject, sources, result>>
  /\ UNCHANGED NotUrl

\* the same call is made a second time with the same arguments
Repeat ==
  /\ pc = "returned"
  /\ again' = encodeUrlParams(url, urlObject, sources)
  /\ urlObject' = again'.after
  /\ pc' = "repeated"
  /\ UNCHANGED <<url, sources, result>>
  /\ UNCHANGED NotUrl

Next == CallEncodeUrl \/ CallEncodeUrlParams \/ Reapply \/ Repeat

Spec == Init /\ [][Next]_vars

(***************************************************************************)
(* Reading the arguments and the returned string.                          *)
(***************************************************************************)
\* the URL the call starts from, before any entry is applied
BaseUrl == Construct(url, Constructed(url))

\* the entries of all sources, in argument order
AllEntries == Flatten([i \in 1..Len(sources) |-> sources[i].entries])

\* the base's parameters followed by the sources' entries: every write and
\* removal in the order the call meets them
Events ==
  [i \in 1..Len(BaseUrl.url.params) |->
     <<BaseUrl.url.params[i][1], Str(BaseUrl.url.params[i][2])>>] \o AllEntries

\* the query parameters of a returned string
OutParams(text) == FormParse(After(Before(text, {"#"}), {"?"}))

OutKeys(text) == {OutParams(text)[i][1] : i \in 1..Len(OutParams(text))}

SourceKeys == {AllEntries[i][1] : i \in 1..Len(AllEntries)}

\* index in AllEntries of the last entry for key k
LastEntry(k) ==
  CHOOSE i \in 1..Len(AllEntries) :
    AllEntries[i][1] = k /\ \A j \in (i + 1)..Len(AllEntries) : AllEntries[j][1] # k

HasReturned == pc = "returned" /\ ~result.threw

\* C1: a key whose last entry over all sources is null or undefined is absent
\* from the query string of the returned URL, whatever the base's query or
\* an earlier source gave it.
C1_RemovedKeyAbsent ==
  HasReturned =>
    \A k \in SourceKeys :
      IsNullish(AllEntries[LastEntry(k)][2]) => k \notin OutKeys(result.value)

\* A call returned where a key of the base's query was written by one source
\* and removed by a later one.
C1_Witness ==
  /\ HasReturned
  /\ Len(sources) = 2
  /\ \E k \in SourceKeys :
       /\ HasName(BaseUrl.url.params, k)
       /\ \E i \in 1..Len(sources[1].entries) :
            sources[1].entries[i][1] = k /\ ~IsNullish(sources[1].entries[i][2])
       /\ \E i \in 1..Len(sources[2].entries) : sources[2].entries[i][1] = k
       /\ IsNullish(AllEntries[LastEntry(k)][2])
       /\ OutParams(result.value) # <<>>

\* position in the events ev of the first occurrence of key k
FirstSeen(ev, k) ==
  CHOOSE i \in 1..Len(ev) : ev[i][1] = k /\ \A j \in 1..(i - 1) : ev[j][1] # k

\* the positions in ev where key k is removed
Removals(ev, k) == {i \in 1..Len(ev) : ev[i][1] = k /\ IsNullish(ev[i][2])}

\* position in ev of the last removal of key k, 0 when it is never removed
LastRemoval(ev, k) ==
  LET r == Removals(ev, k)
  IN IF r = {} THEN 0 ELSE CHOOSE i \in r : \A j \in r : j <= i

\* position in ev of the first occurrence of key k since its last removal
\* (k has one: it is a key of the output)
Birth(ev, k) ==
  LET from == LastRemoval(ev, k) + 1
  IN CHOOSE i \in from..Len(ev) :
       ev[i][1] = k /\ \A j \in from..(i - 1) : ev[j][1] # k

\* the positions in a parameter list where a name stands for the first time
Firsts(list) == {i \in 1..Len(list) : \A j \in 1..(i - 1) : list[j][1] # list[i][1]}

\* position of the first tuple named k in a parameter list
Position(list, k) ==
  CHOOSE i \in 1..Len(list) : list[i][1] = k /\ \A j \in 1..(i - 1) : list[j][1] # k

\* every key whose last entry over the sources is a value is in the output
\* once, with that value
LastWriteWins(out) ==
  \A k \in SourceKeys :
    ~IsNullish(AllEntries[LastEntry(k)][2]) =>
      /\ Cardinality({i \in 1..Len(out) : out[i][1] = k}) = 1
      /\ out[Position(out, k)][2] = StringOf(AllEntries[LastEntry(k)][2])

CarriedFragment ==
  IF url.kind = "URL" THEN Constructed(url).fragment.text ELSE After(url.text, {"#"})

Merged == ApplySources(BaseUrl.url, sources).params

\* the returned string without the scheme and authority of an absolute base
OutLocal ==
  IF IsAbsolute(url)
  THEN SubSeq(result.value, 4 + Len(BaseUrl.url.host), Len(result.value))
  ELSE result.value

\* the authority an absolute string names: the text between "//" and the
\* next "/", "?" or "#"
NamedHost(text) == Before(SubSeq(text, 4, Len(text)), {"/", "?", "#"})

\* C4: for a base string that fails the scheme check the returned string is
\* the path, the query and the fragment only, with no scheme and no
\* authority of the throwaway base; for an absolute base (a string that
\* passes the check, or a URL object) it is the href, which starts with the
\* scheme and authority of the base.
C4_FormPreserved ==
  HasReturned =>
    LET out == result.value
    IN IF IsAbsolute(url)
       THEN /\ StartsWith(out, <<BaseUrl.url.scheme, "/", "/">> \o BaseUrl.url.host \o <<"/">>)
            /\ url.kind = "string" =>
                 StartsWith(out, SubSeq(url.text, 1, 3) \o NamedHost(url.text))
       ELSE /\ \A i \in 1..Len(out) : out[i] \notin SchemeTokens \cup {LocalBase.host[1]}
            /\ Head(out) = "/"
            /\ Before(out, {"?", "#"}) = Pathname(BaseUrl.url)
            /\ OutParams(out) = Merged

\* A call returned a query string for a base that fails the scheme check
\* and names a host of its own.
C4_Witness ==
  /\ HasReturned
  /\ ~IsAbsolute(url)
  /\ BaseUrl.url.host # LocalBase.host
  /\ OutParams(result.value) # <<>>

\* the first argument is a string already in serialized form
Serialized == url.kind = "string" /\ BaseUrl.ok /\ Href(BaseUrl.url) = url.text

\* the text of s from its first "#" on
FromHash(s) ==
  IF FirstOf(s, {"#"}) = 0 THEN <<>> ELSE SubSeq(s, FirstOf(s, {"#"}), Len(s))

C6_Idempotent ==
  pc = "reapplied" => ~again.threw /\ again.value = result.value

\* a path that the parser leaves as written
PlainPath(text) ==
  /\ text # <<>> /\ Head(text) = "/"
  /\ ~StartsWith(text, <<"/", "/">>)
  /\ \A i \in 1..Len(text) : text[i] \notin {".", " "}

C8_InputsUnchanged ==
  pc \in {"returned", "repeated"} =>
    /\ urlObject = Constructed(url)
    /\ pc = "repeated" => again.threw = result.threw /\ again.value = result.value

\* the first argument with its leading and trailing spaces stripped
Trimmed == DropTrailing(DropLeading(url.text, {" "}), {" "})

\* the first argument is a string that names an authority of its own: it
\* starts with "//" or with a scheme
NamesAuthority ==
  /\ url.kind = "string"
  /\ \/ StartsWith(Trimmed, <<"/", "/">>)
     \/ Trimmed # <<>> /\ Head(Trimmed) \in SchemeTokens

\* the text of that authority
AuthorityText ==
  Before(DropLeading(IF Head(Trimmed) \in SchemeTokens THEN Tail(Trimmed) ELSE Trimmed, {"/"}),
         {"/", "?", "#"})

\* a returned string is a whole one: a path, or a scheme and what follows
FullyFormed(r) ==
  /\ r.value # <<>>
  /\ \/ Head(r.value) = "/"
     \/ \E scheme \in SchemeTokens : StartsWith(r.value, <<scheme, "/", "/">>)

AsArrays == [i \in 1..Len(sources) |-> AsShape("array", sources[i].entries)]

Integer(n) == [kind |-> "integer", n |-> n]

Fraction(n) == [kind |-> "fraction", n |-> n]

NaN == [kind |-> "NaN", n |-> 0]

Infinity(sign) == [kind |-> "Infinity", n |-> sign]

\* Number.isInteger
IsInteger(x) == x.kind = "integer"

\* x > 0
IsPositive(x) ==
  CASE x.kind = "integer" -> x.n > 0
    [] x.kind = "fraction" -> x.n >= 0
    [] x.kind = "Infinity" -> x.n > 0
    [] OTHER -> FALSE

Min(a, b) == IF a < b THEN a ELSE b

\* slice(start, end) of an array or of a string, for 0 <= start <= end:
\* the items at the 0-based indices start .. end - 1 that exist
Slice_toEnd(items, start, end) == SubSeq(items, start + 1, Len(items))

Slice(items, start, end) == SubSeq(items, start + 1, Min(end, Len(items)))

RECURSIVE ChunkLoop(_, _, _, _)
\* the loop of lines 37-39 from index i on
ChunkLoop(items, size, i, chunks) ==
  IF i < Len(items)
  THEN ChunkLoop(items, size, i + size, Append(chunks, Slice(items, i, i + size)))
  ELSE chunks

Chunked(chunks) == [threw |-> FALSE, value |-> chunks]

ChunkRangeError == [threw |-> TRUE, value |-> <<>>]

\* array.ts
chunkEvery(array, size) ==
  IF ~(IsInteger(size) /\ IsPositive(size))
  THEN ChunkRangeError
  ELSE Chunked(ChunkLoop(array, size.n, 0, <<>>))

\* string.ts
chunkEveryString(string, size) ==
  IF ~(IsInteger(size) /\ IsPositive(size))
  THEN ChunkRangeError
  ELSE Chunked(ChunkLoop(string, size.n, 0, <<>>))

ChunkItems == {"a", "b"}

ChunkInputs == [kind : {"array", "string"}, items : SeqsUpTo(ChunkItems, MaxItems)]

ChunkSizes ==
  {Integer(n) : n \in -1..MaxChunk}
    \cup {Fraction(0), Fraction(1), Fraction(-1), NaN, Infinity(1), Infinity(-1)}

ChunkInit ==
  /\ chunkInput \in ChunkInputs
  /\ chunkSize \in ChunkSizes
  /\ chunkPc = "args"
  /\ chunkResult = <<>>

InitChunk == ChunkInit /\ NotChunkIdle

ChunkDone(r) ==
  /\ chunkPc' = IF r.threw THEN "threw" ELSE "returned"
  /\ chunkResult' = r.value
  /\ UNCHANGED <<chunkInput, chunkSize>>
  /\ UNCHANGED NotChunk

CallChunkEvery ==
  /\ chunkPc = "args"
  /\ chunkInput.kind = "array"
  /\ ChunkDone(chunkEvery(chunkInput.items, chunkSize))

CallChunkEveryString ==
  /\ chunkPc = "args"
  /\ chunkInput.kind = "string"
  /\ ChunkDone(chunkEveryString(chunkInput.items, chunkSize))

NextChunk == CallChunkEvery \/ CallChunkEveryString

SpecChunk == InitChunk /\ [][NextChunk]_vars

\* C11: for a positive integer chunkSize the call returns chunks that
\* concatenated in order are the input, every chunk but the last of exactly
\* chunkSize items, the last of 1 to chunkSize items, and no chunk for an
\* empty input; for any other chunkSize it throws and returns nothing.
C11_ChunksPartition ==
  chunkPc \in {"returned", "threw"} =>
    IF IsInteger(chunkSize) /\ chunkSize.n > 0
    THEN /\ chunkPc = "returned"
         /\ Flatten(chunkResult) = chunkInput.items
         /\ \A i \in 1..(Len(chunkResult) - 1) : Len(chunkResult[i]) = chunkSize.n
         /\ chunkResult # <<>> =>
              Len(chunkResult[Len(chunkResult)]) \in 1..chunkSize.n
         /\ chunkInput.items = <<>> => chunkResult = <<>>
    ELSE chunkPc = "threw" /\ chunkResult = <<>>

\* A string was cut into several chunks, the last one short.
C11_Witness ==
  /\ chunkPc = "returned"
  /\ chunkInput.kind = "string"
  /\ Len(chunkResult) >= 2
  /\ Len(chunkResult[Len(chunkResult)]) < chunkSize.n

(***************************************************************************)
(* findValue: array.ts.                                                    *)
(* fn is a function of the element; what it returns is the CONTINUE        *)
(* sentinel, undefined, or a value.                                        *)
(***************************************************************************)
CONTINUE == "Symbol(CONTINUE)"

Undefined == "undefined"

FindElements == {"x", "y", "z"}

FindValues == {CONTINUE, Undefined, "u", "v"}

\* value !== CONTINUE
Found_defined(value) == value \notin {CONTINUE, Undefined}

Found(value) == value # CONTINUE

FindInit ==
  /\ findArray \in SeqsUpTo(FindElements, MaxFind)
  /\ findFn \in [FindElements -> FindValues]
  /\ findI = 0
  /\ findCalls = <<>>
  /\ findPc = "loop"
  /\ findResult = Undefined

InitFind == FindInit /\ NotFindIdle

\* one pass of the loop body: fn is invoked on array[i]
FindInvoke ==
  /\ findPc = "loop"
  /\ findI < Len(findArray)
  /\ LET value == findFn[findArray[findI + 1]]
     IN /\ findCalls' = Append(findCalls, findArray[findI + 1])
        /\ IF Found(value)
           THEN findPc' = "returned" /\ findResult' = value /\ findI' = findI
           ELSE findPc' = "loop" /\ findResult' = findResult /\ findI' = findI + 1
  /\ UNCHANGED <<findArray, findFn>>
  /\ UNCHANGED NotFind

\* the loop ran off the end of the array
FindExhausted ==
  /\ findPc = "loop"
  /\ findI >= Len(findArray)
  /\ findPc' = "returned"
  /\ findResult' = Undefined
  /\ UNCHANGED <<findArray, findFn, findI, findCalls>>
  /\ UNCHANGED NotFind

NextFind == FindInvoke \/ FindExhausted

SpecFind == InitFind /\ [][NextFind]_vars

\* the positions of the elements for which fn returns a value other than
\* CONTINUE
FindHits == {i \in 1..Len(findArray) : findFn[findArray[i]] # CONTINUE}

FirstHit == CHOOSE i \in FindHits : \A j \in FindHits : i <= j

NullValue == [kind |-> "null", n |-> 0]

UndefinedValue == [kind |-> "undefined", n |-> 0]

Boolean(b) == [kind |-> "boolean", n |-> IF b THEN 1 ELSE 0]

\* x == null
IsEmpty_strict(x) == x.kind = "null"

IsEmpty(x) == x.kind \in {"null", "undefined"}

\* x < 0
IsNegative(x) ==
  CASE x.kind = "integer" -> x.n < 0
    [] x.kind = "fraction" -> x.n < 0
    [] x.kind = "Infinity" -> x.n < 0
    [] OTHER -> FALSE

\* x == 0
IsZero(x) == x.kind = "integer" /\ x.n = 0

\* a - b on numbers
Minus(a, b) ==
  CASE a.kind = "NaN" \/ b.kind = "NaN" -> NaN
    [] a.kind = "Infinity" /\ b.kind = "Infinity" ->
         IF a.n = b.n THEN NaN ELSE a
    [] a.kind = "Infinity" -> a
    [] b.kind = "Infinity" -> Infinity(-b.n)
    [] a.kind = b.kind -> Integer(a.n - b.n)
    [] a.kind = "fraction" -> Fraction(a.n - b.n)
    [] OTHER -> Fraction(a.n - b.n - 1)

compareBooleansAsc(target, other) ==
  IF IsEmpty(target) THEN (IF IsEmpty(other) THEN Integer(0) ELSE Integer(1))
  ELSE IF IsEmpty(other) THEN Integer(-1)
  ELSE IF target = other THEN Integer(0)
  ELSE IF target.n = 1 THEN Integer(1) ELSE Integer(-1)

compareBooleansDesc(target, other) ==
  IF IsEmpty(target) THEN (IF IsEmpty(other) THEN Integer(0) ELSE Integer(1))
  ELSE IF IsEmpty(other) THEN Integer(-1)
  ELSE IF target = other THEN Integer(0)
  ELSE IF target.n = 1 THEN Integer(-1) ELSE Integer(1)

compareNumbersAsc(target, other) ==
  IF ~IsEmpty(target)
  THEN (IF ~IsEmpty(other) THEN Minus(target, other) ELSE Integer(-1))
  ELSE IF ~IsEmpty(other) THEN Integer(1) ELSE Integer(0)

compareNumbersDesc(target, other) ==
  IF ~IsEmpty(target)
  THEN (IF ~IsEmpty(other) THEN Minus(other, target) ELSE Integer(-1))
  ELSE IF ~IsEmpty(other) THEN Integer(1) ELSE Integer(0)

(***************************************************************************)
(* sortBy: array.ts.                                                       *)
(***************************************************************************)
SortCompareFns == {"compareNumbersAsc", "compareNumbersDesc", "() => 0"}

\* compareFn(a, b)
CompareFn(name, a, b) ==
  CASE name = "compareNumbersAsc" -> compareNumbersAsc(a, b)
    [] name = "compareNumbersDesc" -> compareNumbersDesc(a, b)
    [] OTHER -> Integer(0)

\* the comparator of lines 164-167 on decorated elements <<e, mapFn(e), i>>
Decorated_lastFirst(name, a, b) ==
  LET r == CompareFn(name, a[2], b[2])
  IN IF IsZero(r) THEN Integer(b[3] - a[3]) ELSE r

Decorated(name, a, b) ==
  LET r == CompareFn(name, a[2], b[2])
  IN IF IsZero(r) THEN Integer(a[3] - b[3]) ELSE r

\* Array.prototype.sort reads a comparator's NaN as 0
SortCompare(name, a, b) ==
  LET r == Decorated(name, a, b)
  IN IF IsNegative(r) THEN -1 ELSE IF IsPositive(r) THEN 1 ELSE 0

RECURSIVE InsertSorted(_, _, _)
\* x put behind every item of a sorted list that does not sort after it
InsertSorted(name, sorted, x) ==
  IF sorted = <<>> THEN <<x>>
  ELSE IF SortCompare(name, sorted[Len(sorted)], x) <= 0 THEN Append(sorted, x)
  ELSE Append(InsertSorted(name, SubSeq(sorted, 1, Len(sorted) - 1), x),
              sorted[Len(sorted)])

RECURSIVE ArraySort(_, _)
\* Array.prototype.sort under a consistent comparator: a stable sort
ArraySort(name, list) ==
  IF list = <<>> THEN <<>>
  ELSE InsertSorted(name, ArraySort(name, SubSeq(list, 1, Len(list) - 1)), list[Len(list)])

sortBy(array, mapFn, name) ==
  LET decorated == [i \in 1..Len(array) |-> <<array[i], mapFn[array[i]], i - 1>>]
      sorted == ArraySort(name, decorated)
  IN [i \in 1..Len(sorted) |-> sorted[i][1]]

SortElements == {"p", "q", "r"}

SortValues == {Integer(0), Integer(1), NullValue}

SortInit ==
  /\ sortArray \in SeqsUpTo(SortElements, MaxSort)
  /\ sortGiven = sortArray
  /\ sortMapFn \in [SortElements -> SortValues]
  /\ sortCompareFn \in SortCompareFns
  /\ sortPc = "args"
  /\ sortResult = <<>>

InitSort == SortInit /\ NotSortIdle

\* map makes a new array; sort and the second map work on that one
CallSortBy ==
  /\ sortPc = "args"
  /\ sortResult' = sortBy(sortArray, sortMapFn, sortCompareFn)
  /\ sortPc' = "returned"
  /\ UNCHANGED <<sortArray, sortGiven, sortMapFn, sortCompareFn>>
  /\ UNCHANGED NotSort

NextSort == CallSortBy

SpecSort == InitSort /\ [][NextSort]_vars

\* how often an element stands in a list
Count(list, e) == Cardinality({i \in 1..Len(list) : list[i] = e})

\* a list without the elements outside a set
RECURSIVE Only(_, _)
Only(list, set) ==
  IF list = <<>> THEN <<>>
  ELSE IF Head(list) \in set THEN <<Head(list)>> \o Only(Tail(list), set)
  ELSE Only(Tail(list), set)

\* the sign compareFn gives for the mapped values of two elements
Sign(x, y) ==
  LET r == CompareFn(sortCompareFn, sortMapFn[x], sortMapFn[y])
  IN IF IsNegative(r) THEN -1 ELSE IF IsPositive(r) THEN 1 ELSE 0

\* C13: the returned array is a permutation of the input, ordered by
\* compareFn on the mapped values; elements whose mapped values compare equal
\* stand in their original relative order; the input array is as it was.
C13_StableSort ==
  sortPc = "returned" =>
    /\ \A e \in SortElements : Count(sortResult, e) = Count(sortGiven, e)
    /\ \A i, j \in 1..Len(sortResult) :
         i < j => Sign(sortResult[i], sortResult[j]) <= 0
    /\ \A x, y \in SortElements :
         Sign(x, y) = 0 => Only(sortResult, {x, y}) = Only(sortGiven, {x, y})
    /\ sortArray = sortGiven

\* The call moved an element to the front, past two different elements
\* whose mapped values compare equal.
C13_Witness ==
  /\ sortPc = "returned"
  /\ Len(sortGiven) = 3
  /\ sortGiven[1] # sortGiven[2]
  /\ Sign(sortGiven[1], sortGiven[2]) = 0
  /\ Sign(sortGiven[3], sortGiven[1]) < 0
  /\ sortResult = <<sortGiven[3], sortGiven[1], sortGiven[2]>>

(***************************************************************************)
(* The comparators of booleans and numbers: comparators.ts.                *)
(***************************************************************************)
Empties == {NullValue, UndefinedValue}

Booleans == {Boolean(TRUE), Boolean(FALSE)}

Numbers ==
  {Integer(n) : n \in -MaxNumber..MaxNumber}
    \cup {Fraction(0), Fraction(-1), NaN, Infinity(1), Infinity(-1)}

CmpInit ==
  /\ \/ /\ cmpFn \in {"compareBooleansAsc", "compareBooleansDesc"}
        /\ cmpTarget \in Booleans \cup Empties
        /\ cmpOther \in Booleans \cup Empties
     \/ /\ cmpFn \in {"compareNumbersAsc", "compareNumbersDesc"}
        /\ cmpTarget \in Numbers \cup Empties
        /\ cmpOther \in Numbers \cup Empties
  /\ cmpPc = "args"
  /\ cmpResult = Integer(0)

InitCmp == CmpInit /\ NotCmpIdle

CmpDone(r) ==
  /\ cmpResult' = r
  /\ cmpPc' = "returned"
  /\ UNCHANGED <<cmpTarget, cmpOther, cmpFn>>
  /\ UNCHANGED NotCmp

CallCompareBooleansAsc ==
  /\ cmpPc = "args" /\ cmpFn = "compareBooleansAsc"
  /\ CmpDone(compareBooleansAsc(cmpTarget, cmpOther))

CallCompareBooleansDesc ==
  /\ cmpPc = "args" /\ cmpFn = "compareBooleansDesc"
  /\ CmpDone(compareBooleansDesc(cmpTarget, cmpOther))

CallCompareNumbersAsc ==
  /\ cmpPc = "args" /\ cmpFn = "compareNumbersAsc"
  /\ CmpDone(compareNumbersAsc(cmpTarget, cmpOther))

CallCompareNumbersDesc ==
  /\ cmpPc = "args" /\ cmpFn = "compareNumbersDesc"
  /\ CmpDone(compareNumbersDesc(cmpTarget, cmpOther))

NextCmp ==
  \/ CallCompareBooleansAsc
  \/ CallCompareBooleansDesc
  \/ CallCompareNumbersAsc
  \/ CallCompareNumbersDesc

SpecCmp == InitCmp /\ [][NextCmp]_vars

\* C14: each of the four comparators returns a negative number for a
\* non-empty value against null or undefined, a positive number for null or
\* undefined against a non-empty value, and 0 for two empty values.
C14_EmptyLast ==
  cmpPc = "returned" =>
    /\ (cmpTarget \notin Empties /\ cmpOther \in Empties) => IsNegative(cmpResult)
    /\ (cmpTarget \in Empties /\ cmpOther \notin Empties) => IsPositive(cmpResult)
    /\ (cmpTarget \in Empties /\ cmpOther \in Empties) => IsZero(cmpResult)

\* A descending comparator returned for undefined against the value that
\* sorts first in its direction.
C14_Witness ==
  /\ cmpPc = "returned"
  /\ cmpFn = "compareNumbersDesc"
  /\ cmpTarget = UndefinedValue
  /\ cmpOther = Infinity(1)
  /\ IsPositive(cmpResult)

(***************************************************************************)
(* mod: number.ts.                                                         *)
(* Numbers are binary floating point.  The integers among them are         *)
(* modelled with a significand of SignificandBits bits; the zero that "%"  *)
(* leaves for a negative dividend is -0, which compares and adds as 0.     *)
(***************************************************************************)
Abs(x) == IF x < 0 THEN -x ELSE x

\* the integers that every operation represents exactly
MaxSafeInteger == 2 ^ SignificandBits - 1

RECURSIVE Ulp(_)
\* the distance between the numbers around the magnitude x
Ulp(x) == IF x <= MaxSafeInteger THEN 1 ELSE 2 * Ulp(x \div 2)

\* the number nearest to the integer x, ties to the even significand
RoundToNumber(x) ==
  LET u == Ulp(Abs(x))
      q == Abs(x) \div u
      r == Abs(x) % u
      up == 2 * r > u \/ (2 * r = u /\ q % 2 = 1)
      m == (IF up THEN q + 1 ELSE q) * u
  IN IF x < 0 THEN -m ELSE m

\* a % b: the remainder of the truncating division, with the sign of a
Remainder(a, b) ==
  LET r == Abs(a) % Abs(b)
  IN IF a < 0 THEN -r ELSE r

\* remainder * divisor < 0
OppositeSigns_negativeOnly(remainder, divisor) == remainder < 0

OppositeSigns(remainder, divisor) == RoundToNumber(remainder * divisor) < 0

ModReturned(r) == [threw |-> FALSE, value |-> r]

ModRangeError == [threw |-> TRUE, value |-> 0]

mod(dividend, divisor) ==
  IF divisor = 0 THEN ModRangeError
  ELSE LET remainder == Remainder(dividend, divisor)
       IN ModReturned(IF OppositeSigns(remainder, divisor)
                      THEN RoundToNumber(remainder + divisor)
                      ELSE remainder)

\* the largest magnitude passed to mod
MaxOperand == 2 ^ (SignificandBits + 2)

\* the integers that are numbers
IntegerNumbers == {x \in -MaxOperand..MaxOperand : RoundToNumber(x) = x}

ModInit ==
  /\ modDividend \in IntegerNumbers
  /\ modDivisor \in IntegerNumbers
  /\ modPc = "args"
  /\ modResult = 0

InitMod == ModInit /\ NotModIdle

CallMod ==
  /\ modPc = "args"
  /\ LET r == mod(modDividend, modDivisor)
     IN /\ modPc' = IF r.threw THEN "threw" ELSE "returned"
        /\ modResult' = r.value
  /\ UNCHANGED <<modDividend, modDivisor>>
  /\ UNCHANGED NotMod

NextMod == CallMod

SpecMod == InitMod /\ [][NextMod]_vars

\* the result is the modulo remainder: zero or of the sign of the divisor,
\* smaller than it in magnitude, and away from the dividend by a multiple
\* of it
IsModulo ==
  /\ modResult = 0 \/ (modResult < 0) = (modDivisor < 0)
  /\ Abs(modResult) < Abs(modDivisor)
  /\ (modDividend - modResult) % Abs(modDivisor) = 0

\* C15 as stated: for all integers, a zero divisor throws and any other
\* divisor returns the modulo remainder.
C15_ModuloOfIntegers ==
  modPc \in {"returned", "threw"} =>
    IF modDivisor = 0 THEN modPc = "threw" ELSE modPc = "returned" /\ IsModulo

\* C15, amended: a zero divisor throws; any other divisor returns, and the
\* result is the modulo remainder when dividend and divisor are safe
\* integers (integers below 2 ^ SignificandBits in magnitude).
C15_ModuloOfSafeIntegers ==
  modPc \in {"returned", "threw"} =>
    IF modDivisor = 0 THEN modPc = "threw"
    ELSE /\ modPc = "returned"
         /\ (Abs(modDividend) <= MaxSafeInteger /\ Abs(modDivisor) <= MaxSafeInteger)
              => IsModulo

\* The call returned for a negative dividend and the largest safe integer
\* as divisor, and for a positive dividend and a negative divisor.
C15_Witness ==
  /\ modPc = "returned"
  /\ \/ modDividend = -1 /\ modDivisor = MaxSafeInteger /\ modResult = MaxSafeInteger - 1
     \/ modDividend = 5 /\ modDivisor = -2 /\ modResult = -1

(***************************************************************************)
(* Cookies: cookies.ts.                                                    *)
(* A cookie string is a text of characters; the attribute names, the       *)
(* SameSite values, percent escapes and host labels are single tokens.     *)
(***************************************************************************)
\* maxAge default for a non-empty value: 400 days in seconds
DefaultMaxAge == 34560000

\* an option that was not given, and one that was
NotGiven == [given |-> FALSE, text |-> <<>>]

Given(text) == [given |-> TRUE, text |-> text]

\* maxAge: not given, "session", or a number
NoMaxAge == [kind |-> "absent", n |-> 0]

SessionMaxAge == [kind |-> "session", n |-> 0]

MaxAgeOf(n) == [kind |-> "number", n |-> n]

NoOptions == [domain |-> NotGiven, maxAge |-> NoMaxAge, path |-> NotGiven, sameSite |-> NotGiven]

\* the characters encodeURIComponent escapes, among those of the model
UriEscapes ==
  [c \in {" ", "&", ";", "=", "%", "+"} |->
     CASE c = " " -> "%20" [] c = "&" -> "%26" [] c = ";" -> "%3B"
       [] c = "=" -> "%3D" [] c = "%" -> "%25" [] OTHER -> "%2B"]

encodeURIComponent(s) ==
  [i \in 1..Len(s) |-> IF s[i] \in DOMAIN UriEscapes THEN UriEscapes[s[i]] ELSE s[i]]

decodeURIComponent(s) ==
  [i \in 1..Len(s) |->
     IF \E c \in DOMAIN UriEscapes : UriEscapes[c] = s[i]
     THEN CHOOSE c \in DOMAIN UriEscapes : UriEscapes[c] = s[i]
     ELSE s[i]]

\* `${n}` of an integer
NumberText(n) == IF n < 0 THEN <<"-">> \o Decimal(-n) ELSE Decimal(n)

\* a default of the destructuring of line 143
OrDefault(option, default) == IF option.given THEN option.text ELSE default

\* maxAge = value != "" ? 34560000 : 0 when it is not given
MaxAgeOrDefault_always(value, maxAge) ==
  IF maxAge.kind = "absent" THEN MaxAgeOf(DefaultMaxAge) ELSE maxAge

MaxAgeOrDefault(value, maxAge) ==
  IF maxAge.kind = "absent"
  THEN (IF value # <<>> THEN MaxAgeOf(DefaultMaxAge) ELSE MaxAgeOf(0))
  ELSE maxAge

\* the string of lines 145-152
CookieString(location, name, value, options) ==
  LET domain == options.domain.text
      maxAge == MaxAgeOrDefault(value, options.maxAge)
      path == OrDefault(options.path, <<"/">>)
      sameSite == OrDefault(options.sameSite, <<"Lax">>)
  IN name \o <<"=">> \o encodeURIComponent(value)
       \o (IF domain # <<>> THEN <<";", " ", "Domain", "=">> \o domain ELSE <<>>)
       \o (IF path # <<>> THEN <<";", " ", "Path", "=">> \o path ELSE <<>>)
       \o (IF location.protocol = "https:" THEN <<";", " ", "Secure">> ELSE <<>>)
       \o (IF sameSite # <<>> THEN <<";", " ", "SameSite", "=">> \o sameSite ELSE <<>>)
       \o (IF maxAge.kind # "session"
           THEN <<";", " ", "Max-Age", "=">> \o NumberText(maxAge.n) ELSE <<>>)

(***************************************************************************)
(* The browser: document.cookie (RFC 6265).                                *)
(***************************************************************************)
\* s without the spaces around it
Trim(s) == DropTrailing(DropLeading(s, {" "}), {" "})

\* the attributes of a cookie string: the pieces behind the first ";"
Attributes(cookie) ==
  LET pieces == Split(cookie, ";")
  IN [i \in 1..(Len(pieces) - 1) |->
        [name |-> Trim(Before(pieces[i + 1], {"="})),
         value |-> Trim(After(pieces[i + 1], {"="}))]]

HasAttribute(cookie, name) ==
  \E i \in 1..Len(Attributes(cookie)) : Attributes(cookie)[i].name = <<name>>

\* the value of the last attribute of that name
AttributeValue(cookie, name) ==
  LET attrs == Attributes(cookie)
      last == CHOOSE i \in 1..Len(attrs) :
                attrs[i].name = <<name>> /\ \A j \in (i + 1)..Len(attrs) : attrs[j].name # <<name>>
  IN attrs[last].value

\* the name and the value of a cookie string
PairName(cookie) == Trim(Before(Before(cookie, {";"}), {"="}))

PairValue(cookie) == Trim(After(Before(cookie, {";"}), {"="}))

RECURSIVE Join(_, _)
\* Array.prototype.join
Join(parts, sep) ==
  IF parts = <<>> THEN <<>>
  ELSE IF Len(parts) = 1 THEN parts[1]
  ELSE parts[1] \o sep \o Join(Tail(parts), sep)

\* the host as a text: its labels joined by "."
HostText(location) == Join([i \in 1..Len(location.hostname) |-> <<location.hostname[i]>>], <<".">>)

EndsWith(s, suffix) ==
  Len(suffix) <= Len(s) /\ SubSeq(s, Len(s) - Len(suffix) + 1, Len(s)) = suffix

\* the host is the domain or a subdomain of it
DomainMatches(host, domain) ==
  host = domain \/ EndsWith(host, <<".">> \o domain)

\* domains no page may set a cookie for
PublicSuffixes == {<<"com">>}

\* the directory of the page, the path of a cookie written without one
DefaultPath(pathname) ==
  LET slashes == {i \in 1..Len(pathname) : pathname[i] = "/"}
      last == CHOOSE i \in slashes : \A j \in slashes : j <= i
  IN IF pathname = <<>> \/ Head(pathname) # "/" \/ last = 1 THEN <<"/">>
     ELSE SubSeq(pathname, 1, last - 1)

\* the page's path is under the cookie's path
PathMatches(pathname, path) ==
  /\ StartsWith(pathname, path)
  /\ \/ pathname = path
     \/ path[Len(path)] = "/"
     \/ pathname[Len(path) + 1] = "/"

\* a Max-Age value is an optional "-" and digits
IsMaxAge(text) ==
  LET digits == IF text # <<>> /\ Head(text) = "-" THEN Tail(text) ELSE text
  IN digits # <<>> /\ \A i \in 1..Len(digits) : \E d \in 1..10 : Digits[d] = digits[i]

\* it is zero or negative: the cookie expires at once
IsPast(text) == Head(text) = "-" \/ \A i \in 1..Len(text) : text[i] = "0"

\* the cookie a string asks for
AskedCookie(location, cookie) ==
  LET domain == IF HasAttribute(cookie, "Domain")
                THEN DropLeading(AttributeValue(cookie, "Domain"), {"."}) ELSE <<>>
      path == IF HasAttribute(cookie, "Path") THEN AttributeValue(cookie, "Path") ELSE <<>>
  IN [name |-> PairName(cookie),
      value |-> PairValue(cookie),
      domain |-> IF domain = <<>> THEN HostText(location) ELSE domain,
      hostOnly |-> domain = <<>>,
      path |-> IF path = <<>> \/ Head(path) # "/" THEN DefaultPath(location.pathname) ELSE path]

\* the browser ignores the string
Ignored(location, cookie) ==
  LET asked == AskedCookie(location, cookie)
  IN \/ FirstOf(Before(cookie, {";"}), {"="}) = 0
     \/ asked.name = <<>>
     \/ ~DomainMatches(HostText(location), asked.domain)
     \/ ~asked.hostOnly /\ asked.domain \in PublicSuffixes
     \/ HasAttribute(cookie, "Secure") /\ location.protocol # "https:"
     \/ /\ HasAttribute(cookie, "SameSite")
        /\ AttributeValue(cookie, "SameSite") = <<"None">>
        /\ ~HasAttribute(cookie, "Secure")

SameCookie(a, b) ==
  a.name = b.name /\ a.domain = b.domain /\ a.hostOnly = b.hostOnly /\ a.path = b.path

\* document.cookie = cookie
Assign(location, jar, cookie) ==
  LET asked == AskedCookie(location, cookie)
      expires == /\ HasAttribute(cookie, "Max-Age")
                 /\ IsMaxAge(AttributeValue(cookie, "Max-Age"))
                 /\ IsPast(AttributeValue(cookie, "Max-Age"))
      held == \E i \in 1..Len(jar) : SameCookie(jar[i], asked)
  IN IF Ignored(location, cookie) THEN jar
     ELSE IF expires THEN SelectSeq(jar, LAMBDA c : ~SameCookie(c, asked))
     ELSE IF held THEN [i \in 1..Len(jar) |-> IF SameCookie(jar[i], asked) THEN asked ELSE jar[i]]
     ELSE Append(jar, asked)

RECURSIVE AssignAll(_, _, _)
AssignAll(location, jar, cookies) ==
  IF cookies = <<>> THEN jar
  ELSE AssignAll(location, Assign(location, jar, Head(cookies)), Tail(cookies))

\* the cookies the page sees: longer paths first, then older cookies first
Visible(location, jar) ==
  LET seen == SelectSeq(jar, LAMBDA c :
                /\ IF c.hostOnly THEN HostText(location) = c.domain
                   ELSE DomainMatches(HostText(location), c.domain)
                /\ PathMatches(location.pathname, c.path))
      longest == Len(location.pathname)
  IN Flatten([n \in 1..(longest + 1) |->
                SelectSeq(seen, LAMBDA c : Len(c.path) = longest + 1 - n)])

\* the value read from document.cookie
DocumentCookie(location, jar) ==
  LET seen == Visible(location, jar)
  IN Join([i \in 1..Len(seen) |-> seen[i].name \o <<"=">> \o seen[i].value], <<";", " ">>)

(***************************************************************************)
(* The cookie functions.  A call leaves what it returned or that it threw, *)
(* the strings it assigned to document.cookie, and the browser's cookies.  *)
(***************************************************************************)
CookieThrew(jar) == [threw |-> TRUE, value |-> <<>>, writes |-> <<>>, jar |-> jar]

CookieDone(value, writes, jar) == [threw |-> FALSE, value |-> value, writes |-> writes, jar |-> jar]

setCookie(location, jar, name, value, options) ==
  IF location.isSSR THEN CookieThrew(jar)
  ELSE LET cookie == CookieString(location, name, value, options)
       IN CookieDone(<<>>, <<cookie>>, Assign(location, jar, cookie))

deleteCookie(location, jar, name, options) ==
  IF location.isSSR THEN CookieThrew(jar)
  ELSE setCookie(location, jar, name, <<>>, options)

\* the options of line 115 without sameSite: ""
NukeOptions_lax(domain, path) ==
  [domain |-> Given(domain), maxAge |-> MaxAgeOf(0), path |-> Given(path), sameSite |-> NotGiven]

\* the options of line 115
NukeOptions(domain, path) ==
  [domain |-> Given(domain), maxAge |-> MaxAgeOf(0), path |-> Given(path), sameSite |-> Given(<<>>)]

\* path is the argument: given or not
nukeCookie(location, jar, name, path) ==
  IF location.isSSR THEN CookieThrew(jar)
  ELSE LET domainParts == location.hostname
           domains == [i \in 1..Len(domainParts) |->
                         Join([j \in 1..(Len(domainParts) - i + 1) |-> <<domainParts[i + j - 1]>>],
                              <<".">>)] \o << <<>> >>
           pathname == OrDefault(path, location.pathname)
           paths == [i \in 1..(Len(pathname) + 1) |-> SubSeq(pathname, 1, i - 1)]
           writes == Flatten([d \in 1..Len(domains) |->
                        [q \in 1..Len(paths) |->
                           CookieString(location, name, <<>>, NukeOptions(domains[d], paths[q]))]])
       IN CookieDone(<<>>, writes, AssignAll(location, jar, writes))

(***************************************************************************)
(* One call that writes cookies, on every page and with every option.      *)
(***************************************************************************)
NoWindow == [isSSR |-> TRUE, protocol |-> "", hostname |-> <<>>, pathname |-> <<>>]

Pages ==
  [isSSR : {FALSE}, protocol : {"http:", "https:"},
   hostname : {<<"x", "com">>, <<"a", "x", "com">>, <<"localhost">>},
   pathname : {<<"/">>, <<"/", "x", "y">>}]

WrittenNames == {<<"u">>, <<"u", "n">>}

WrittenValues == {<<>>, <<"b">>, <<"a", " ", "&">>}

WrittenOptions ==
  [domain : {NotGiven, Given(<<>>), Given(<<"x", ".", "com">>)},
   maxAge : {NoMaxAge, SessionMaxAge, MaxAgeOf(0), MaxAgeOf(3600), MaxAgeOf(-1)},
   path : {NotGiven, Given(<<>>), Given(<<"/", "c">>)},
   sameSite : {NotGiven, Given(<<>>), Given(<<"Strict">>), Given(<<"None">>)}]

NukedPaths == {NotGiven, Given(<<>>), Given(<<"/", "b">>)}

CookieCall(fn, name, value, options, path) ==
  [fn |-> fn, name |-> name, value |-> value, options |-> options, path |-> path]

NoCookieCall == CookieCall("none", <<>>, <<>>, NoOptions, NotGiven)

CookieInit ==
  /\ ckJar = <<>>
  /\ ckCall = NoCookieCall
  /\ ckWrites = <<>>
  /\ ckReturn = [threw |-> FALSE, value |-> <<>>]
  /\ ckCalls = 0

InitCookieWrite ==
  /\ ckLocation \in Pages \cup {NoWindow}
  /\ CookieInit
  /\ NotCookieIdle

\* what a call leaves in the state
CookieCalled(call, r) ==
  /\ ckCall' = call
  /\ ckWrites' = r.writes
  /\ ckJar' = r.jar
  /\ ckReturn' = [threw |-> r.threw, value |-> r.value]
  /\ ckCalls' = ckCalls + 1
  /\ UNCHANGED ckLocation
  /\ UNCHANGED NotCookie

SetCookieOnce ==
  /\ ckCalls = 0
  /\ \E name \in WrittenNames, value \in WrittenValues, options \in WrittenOptions :
       CookieCalled(CookieCall("setCookie", name, value, options, NotGiven),
                    setCookie(ckLocation, ckJar, name, value, options))

DeleteCookieOnce ==
  /\ ckCalls = 0
  /\ \E name \in WrittenNames, options \in WrittenOptions :
       CookieCalled(CookieCall("deleteCookie", name, <<>>, options, NotGiven),
                    deleteCookie(ckLocation, ckJar, name, options))

NukeCookieOnce ==
  /\ ckCalls = 0
  /\ \E name \in WrittenNames, path \in NukedPaths :
       CookieCalled(CookieCall("nukeCookie", name, <<>>, NoOptions, path),
                    nukeCookie(ckLocation, ckJar, name, path))

NextCookieWrite == SetCookieOnce \/ DeleteCookieOnce \/ NukeCookieOnce

SpecCookieWrite == InitCookieWrite /\ [][NextCookieWrite]_vars

\* the names of the attributes of a cookie string
AttributeNames(cookie) == [i \in 1..Len(Attributes(cookie)) |-> Attributes(cookie)[i].name]

\* the attribute is in the string with that value, or, for an empty value,
\* not in it
Carried(cookie, name, want) ==
  IF want = <<>> THEN ~HasAttribute(cookie, name)
  ELSE HasAttribute(cookie, name) /\ AttributeValue(cookie, name) = want

\* C16: setCookie assigns one string to document.cookie; in it Path is "/"
\* unless given and absent for an empty path, SameSite is "Lax" unless given
\* and absent for an empty sameSite, Domain is there only when given, Secure
\* is there exactly on an https: page, and Max-Age is 34560000 for a
\* non-empty value, 0 for an empty one, the given number when maxAge is a
\* number, and absent when maxAge is "session".
C16_CookieDefaults ==
  (ckCall.fn = "setCookie" /\ ~ckLocation.isSSR) =>
    LET o == ckCall.options
        c == ckWrites[1]
    IN /\ Len(ckWrites) = 1
       /\ ~ckReturn.threw
       /\ Before(c, {";"}) = ckCall.name \o <<"=">> \o encodeURIComponent(ckCall.value)
       /\ Carried(c, "Path", IF o.path.given THEN o.path.text ELSE <<"/">>)
       /\ Carried(c, "SameSite", IF o.sameSite.given THEN o.sameSite.text ELSE <<"Lax">>)
       /\ Carried(c, "Domain", IF o.domain.given THEN o.domain.text ELSE <<>>)
       /\ HasAttribute(c, "Secure") <=> ckLocation.protocol = "https:"
       /\ CASE o.maxAge.kind = "session" -> ~HasAttribute(c, "Max-Age")
            [] o.maxAge.kind = "number" ->
                 Carried(c, "Max-Age", NumberText(o.maxAge.n))
            [] OTHER ->
                 Carried(c, "Max-Age",
                         IF ckCall.value # <<>>
                         THEN <<"3", "4", "5", "6", "0", "0", "0", "0">> ELSE <<"0">>)
       /\ \A i, j \in 1..Len(AttributeNames(c)) :
            AttributeNames(c)[i] = AttributeNames(c)[j] => i = j

\* setCookie wrote an empty value with no maxAge, an empty path and a
\* domain, on an https: page.
C16_Witness ==
  /\ ckCall.fn = "setCookie"
  /\ ckLocation.protocol = "https:"
  /\ ckCall.value = <<>>
  /\ ckCall.options.maxAge = NoMaxAge
  /\ ckCall.options.path = Given(<<>>)
  /\ ckCall.options.domain.text # <<>>
  /\ Len(ckWrites) = 1

RECURSIVE Dotted(_)
\* the labels of a host name with dots between them
Dotted(labels) ==
  IF labels = <<>> THEN <<>>
  ELSE IF Len(labels) = 1 THEN <<labels[1]>>
  ELSE <<labels[1], ".">> \o Dotted(Tail(labels))

\* a deletion of the cookie for a domain and a path, each empty for none
IsDeletion(cookie, name, domain, path) ==
  /\ PairName(cookie) = name
  /\ PairValue(cookie) = <<>>
  /\ Carried(cookie, "Domain", domain)
  /\ Carried(cookie, "Path", path)
  /\ Carried(cookie, "Max-Age", <<"0">>)
  /\ ~HasAttribute(cookie, "SameSite")

\* C18: in a browser nukeCookie(name, path) writes one deletion (empty
\* value, Max-Age=0, no SameSite) for every dot-suffix of the host name and
\* for no domain, with every prefix of the path from the empty one to the
\* whole, the path being window.location.pathname when none is given:
\* (d + 1) * (len(path) + 1) writes for d labels, and no other write.
C18_NukeEveryDomainAndPath ==
  (ckCall.fn = "nukeCookie" /\ ~ckLocation.isSSR) =>
    LET labels == ckLocation.hostname
        pathname == IF ckCall.path.given THEN ckCall.path.text ELSE ckLocation.pathname
        domainOf(d) == Dotted(SubSeq(labels, d + 1, Len(labels)))
        pathOf(p) == SubSeq(pathname, 1, p)
        combos == (0..Len(labels)) \X (0..Len(pathname))
        hit(i, c) == IsDeletion(ckWrites[i], ckCall.name, domainOf(c[1]), pathOf(c[2]))
    IN /\ ~ckReturn.threw
       /\ Len(ckWrites) = (Len(labels) + 1) * (Len(pathname) + 1)
       /\ \A c \in combos : Cardinality({i \in 1..Len(ckWrites) : hit(i, c)}) = 1
       /\ \A i \in 1..Len(ckWrites) : \E c \in combos : hit(i, c)

\* nukeCookie ran with no path on a page of a three-label host and a
\* three-character pathname: sixteen writes.
C18_Witness ==
  /\ ckCall.fn = "nukeCookie"
  /\ ~ckCall.path.given
  /\ Len(ckLocation.hostname) = 3
  /\ Len(ckLocation.pathname) = 3
  /\ Len(ckWrites) = 16

(***************************************************************************)
(* Reading cookies.  getCookie puts the name into a regular expression as  *)
(* it is: "." in a name matches any character and "+" repeats the          *)
(* character before it.                                                    *)
(***************************************************************************)
AtomMatches(atom, ch) == atom = "." \/ atom = ch

RECURSIVE Run(_, _, _)
\* how many characters from position i on match the atom
Run(atom, text, i) ==
  IF i <= Len(text) /\ AtomMatches(atom, text[i]) THEN 1 + Run(atom, text, i + 1) ELSE 0

RECURSIVE MatchEnds(_, _, _)
\* the positions behind the matches of a pattern from position i, in the
\* order a backtracking matcher finds them
MatchEnds(pattern, text, i) ==
  IF pattern = <<>> THEN <<i>>
  ELSE IF Len(pattern) >= 2 /\ pattern[2] = "+"
  THEN LET most == Run(pattern[1], text, i)
       IN Flatten([n \in 1..most |->
                     MatchEnds(SubSeq(pattern, 3, Len(pattern)), text, i + most + 1 - n)])
  ELSE IF i <= Len(text) /\ AtomMatches(pattern[1], text[i])
  THEN MatchEnds(Tail(pattern), text, i + 1)
  ELSE <<>>

\* the positions behind (?:^|;\s*) matched at position s
PrefixEnds(text, s) ==
  (IF s = 1 THEN <<1>> ELSE <<>>)
    \o (IF s <= Len(text) /\ text[s] = ";"
        THEN LET spaces == Run(" ", text, s + 1)
             IN [n \in 1..(spaces + 1) |-> s + 1 + spaces + 1 - n]
        ELSE <<>>)

\* the positions of the "=" of the matches of the expression of line 53
NameMatches(text, name) ==
  Flatten([s \in 1..(Len(text) + 1) |->
    Flatten([p \in 1..Len(PrefixEnds(text, s)) |->
      SelectSeq(MatchEnds(name, text, PrefixEnds(text, s)[p]),
                LAMBDA e : e <= Len(text) /\ text[e] = "=")])])

getCookie(location, jar, name) ==
  IF location.isSSR THEN CookieThrew(jar)
  ELSE LET text == DocumentCookie(location, jar)
           match == NameMatches(text, name)
       IN CookieDone(IF match = <<>> THEN <<>>
                     ELSE decodeURIComponent(Before(SubSeq(text, match[1] + 1, Len(text)), {";"})),
                     <<>>, jar)

RECURSIVE SplitCookies(_)
\* document.cookie.split("; ")
SplitCookies(text) ==
  LET at == {i \in 1..(Len(text) - 1) : text[i] = ";" /\ text[i + 1] = " "}
      first == CHOOSE i \in at : \A j \in at : i <= j
  IN IF at = {} THEN <<text>>
     ELSE <<SubSeq(text, 1, first - 1)>> \o SplitCookies(SubSeq(text, first + 2, Len(text)))

HasCookieValue(b) == IF b THEN <<"true">> ELSE <<"false">>

hasCookie(location, jar, name) ==
  IF location.isSSR THEN CookieThrew(jar)
  ELSE LET cookies == SplitCookies(DocumentCookie(location, jar))
       IN CookieDone(HasCookieValue(\E i \in 1..Len(cookies) :
                                      StartsWith(cookies[i], name \o <<"=">>)),
                     <<>>, jar)

(***************************************************************************)
(* Calls one after another on a page.                                      *)
(***************************************************************************)
JarPages ==
  [isSSR : {FALSE}, protocol : {"https:"}, hostname : {<<"x", "com">>},
   pathname : {<<"/">>, <<"/", "x", "/", "y">>}]

JarNames == {<<"u">>, <<"u", "n">>, <<"u", "+", "d">>}

JarValues == {<<"b">>, <<"a", " ", ";">>}

JarOptions == {NoOptions, [NoOptions EXCEPT !.path = Given(<<"/", "x">>)]}

InitCookieJar ==
  /\ ckLocation \in JarPages
  /\ CookieInit
  /\ NotCookieIdle

CallSetCookie ==
  /\ ckCalls < MaxCalls
  /\ \E name \in JarNames, value \in JarValues, options \in JarOptions :
       CookieCalled(CookieCall("setCookie", name, value, options, NotGiven),
                    setCookie(ckLocation, ckJar, name, value, options))

CallDeleteCookie ==
  /\ ckCalls < MaxCalls
  /\ \E name \in JarNames, options \in JarOptions :
       CookieCalled(CookieCall("deleteCookie", name, <<>>, options, NotGiven),
                    deleteCookie(ckLocation, ckJar, name, options))

\* getCookie only reads: the cookies stay as they are
CallGetCookie ==
  \E name \in JarNames :
    LET r == getCookie(ckLocation, ckJar, name)
    IN /\ ckCall' = CookieCall("getCookie", name, <<>>, NoOptions, NotGiven)
       /\ ckReturn' = [threw |-> r.threw, value |-> r.value]
       /\ UNCHANGED <<ckLocation, ckJar, ckWrites, ckCalls>>
       /\ UNCHANGED NotCookie

\* hasCookie only reads: the cookies stay as they are
CallHasCookie ==
  \E name \in JarNames :
    LET r == hasCookie(ckLocation, ckJar, name)
    IN /\ ckCall' = CookieCall("hasCookie", name, <<>>, NoOptions, NotGiven)
       /\ ckReturn' = [threw |-> r.threw, value |-> r.value]
       /\ UNCHANGED <<ckLocation, ckJar, ckWrites, ckCalls>>
       /\ UNCHANGED NotCookie

NextCookieJar == CallSetCookie \/ CallDeleteCookie \/ CallGetCookie \/ CallHasCookie

SpecCookieJar == InitCookieJar /\ [][NextCookieJar]_vars

\* what getCookie and hasCookie return for a name as the cookies stand
Got(name) == getCookie(ckLocation, ckJar, name).value

Has(name) == hasCookie(ckLocation, ckJar, name).value = <<"true">>

\* the cookie a call with these options writes or deletes
Target(name, options) ==
  AskedCookie(ckLocation, CookieString(ckLocation, name, <<>>, options))

\* C17: as the cookies stand after setCookie(name, v) with a non-empty v and
\* default options, getCookie(name) returns v and hasCookie(name) is true;
\* as they stand after deleteCookie(name, options), with no cookie of that
\* name left that was written with other domain/path options,
\* getCookie(name) returns "" and hasCookie(name) is false; a call for a
\* name leaves what both return for the other names as it was.
C17_RoundTrip ==
  /\ [](( ckCall.fn = "setCookie" /\ ckCall.value # <<>> /\ ckCall.options = NoOptions) =>
          (Got(ckCall.name) = ckCall.value /\ Has(ckCall.name)))
  /\ [](( /\ ckCall.fn = "deleteCookie"
          /\ \A i \in 1..Len(ckJar) :
               ckJar[i].name = ckCall.name =>
                 SameCookie(ckJar[i], Target(ckCall.name, ckCall.options)) ) =>
          (Got(ckCall.name) = <<>> /\ ~Has(ckCall.name)))
  /\ [][ \A other \in JarNames \ {ckCall'.name} :
           /\ getCookie(ckLocation', ckJar', other).value = Got(other)
           /\ hasCookie(ckLocation', ckJar', other).value = hasCookie(ckLocation, ckJar, other).value
       ]_vars

(***************************************************************************)
(* useRafDebounce.  The debounced function a render returns is memoized on *)
(* its callback; every debounced function of the hook shares handleRef.    *)
(***************************************************************************)
\* the callbacks a component passes
Callbacks == {"f", "g"}

\* the argument lists of a call
CallArgs == {<<"first">>, <<"second">>}

\* cancelAnimationFrame that leaves the request in the list
cancelAnimationFrame_never(requests, handle) == requests

\* cancelAnimationFrame: the request of that handle, if there is one, is
\* taken off the list
cancelAnimationFrame(requests, handle) ==
  SelectSeq(requests, LAMBDA r : r.handle # handle)

\* requestAnimationFrame of the arrow function of lines 69-71, which
\* closes over callback and args
requestAnimationFrame(requests, handle, fn, args) ==
  Append(requests, [handle |-> handle, callback |-> fn, args |-> args])

RafInit ==
  /\ handleRef = 0
  /\ rafRequests = <<>>
  /\ rafNextHandle = 1
  /\ rafCallback \in Callbacks
  /\ rafFunctions = {rafCallback}
  /\ rafInvoked = <<>>
  /\ rafCalls = <<>>
  /\ rafLast = "render"

InitRaf == RafInit /\ NotRafIdle

\* the component renders again, with the same callback or another one
RenderRaf ==
  /\ \E fn \in Callbacks :
       /\ rafCallback' = fn
       /\ rafFunctions' = rafFunctions \cup {fn}
  /\ rafLast' = "render"
  /\ UNCHANGED <<handleRef, rafRequests, rafNextHandle, rafInvoked, rafCalls>>
  /\ UNCHANGED NotRaf

\* a call of a debounced function the hook has returned
CallDebounced ==
  /\ rafNextHandle <= MaxRafCalls
  /\ \E fn \in rafFunctions, args \in CallArgs :
       /\ rafRequests' = requestAnimationFrame(cancelAnimationFrame(rafRequests, handleRef),
                                               rafNextHandle, fn, args)
       /\ rafCalls' = Append(rafCalls, [callback |-> fn, args |-> args])
  /\ handleRef' = rafNextHandle
  /\ rafNextHandle' = rafNextHandle + 1
  /\ rafLast' = "call"
  /\ UNCHANGED <<rafCallback, rafFunctions, rafInvoked>>
  /\ UNCHANGED NotRaf

\* the browser runs the frame requests, oldest first
AnimationFrame ==
  /\ rafInvoked' = rafInvoked \o
       [i \in 1..Len(rafRequests) |->
          [callback |-> rafRequests[i].callback, args |-> rafRequests[i].args]]
  /\ rafRequests' = <<>>
  /\ rafCalls' = <<>>
  /\ rafLast' = "frame"
  /\ UNCHANGED <<handleRef, rafNextHandle, rafCallback, rafFunctions>>
  /\ UNCHANGED NotRaf

NextRaf == RenderRaf \/ CallDebounced \/ AnimationFrame

SpecRaf == InitRaf /\ [][NextRaf]_vars

\* C19: at most one frame request is pending at any time; a call of the
\* debounced function cancels the request before it and invokes no
\* callback; a frame that follows calls invokes the callback once, with
\* the arguments of the latest of them, and a frame that follows no call
\* invokes nothing.
C19_LatestCallOnFrame ==
  /\ [](Len(rafRequests) <= 1)
  /\ [][ rafLast' = "call" =>
           /\ rafInvoked' = rafInvoked
           /\ \A i \in 1..Len(rafRequests) :
                \A j \in 1..Len(rafRequests') :
                  rafRequests'[j].handle # rafRequests[i].handle
       ]_vars
  /\ [][ rafLast' = "frame" =>
           rafInvoked' = IF rafCalls = <<>> THEN rafInvoked
                         ELSE Append(rafInvoked, rafCalls[Len(rafCalls)])
       ]_vars

\* two calls, the first with "second" and the latest with "first", and
\* then the frame: one invocation, with "first"
C19_Witness ==
  /\ rafLast = "frame"
  /\ rafNextHandle = 3
  /\ Len(rafInvoked) = 1
  /\ rafInvoked[1].args = <<"first">>

(***************************************************************************)
(* useClickOutside.  The document of the component: body holds box and     *)
(* other, box holds inner.                                                 *)
(***************************************************************************)
Nodes == {"body", "box", "inner", "other"}

ParentNode == [body |-> "document", box |-> "body", inner |-> "box", other |-> "body"]

RECURSIVE Contains(_, _)
\* Node.contains: the node itself or a descendant of it
Contains(element, node) ==
  IF node = element THEN TRUE
  ELSE IF node \in Nodes THEN Contains(element, ParentNode[node])
  ELSE FALSE

\* the elements a render attaches the ref to: none, or box
Attached == {"null", "box"}

\* addEventListener: a listener is one entry per type, callback and capture
addEventListener(listeners, type, listener, capture) ==
  listeners \cup {[type |-> type, listener |-> listener, capture |-> capture]}

\* removeEventListener that leaves out the capture option
removeEventListener_bubble(listeners, type, listener, capture) ==
  listeners \ {[type |-> type, listener |-> listener, capture |-> FALSE]}

removeEventListener(listeners, type, listener, capture) ==
  listeners \ {[type |-> type, listener |-> listener, capture |-> capture]}

\* handleClickOutside of lines 28-32: the invocations a click adds
handleClickOutside(element, callback, target) ==
  IF element # "null" /\ ~Contains(element, target)
  THEN <<[callback |-> callback, target |-> target]>>
  ELSE <<>>

ClickInit ==
  /\ clkPhase = "new"
  /\ elementRef = "null"
  /\ callbackRef = ""
  /\ clkRendered = ""
  /\ clkListeners = {}
  /\ clkInvoked = <<>>
  /\ clkLast = [op |-> "none"]
  /\ clkClicks = 0

InitClick == ClickInit /\ NotClickIdle

\* the first render, the commit that attaches the ref, and the effect
Mount ==
  /\ clkPhase = "new"
  /\ \E fn \in Callbacks, element \in Attached :
       /\ callbackRef' = fn
       /\ clkRendered' = fn
       /\ elementRef' = element
  /\ clkListeners' = addEventListener(clkListeners, "click", "handleClickOutside", TRUE)
  /\ clkPhase' = "mounted"
  /\ clkLast' = [op |-> "mount"]
  /\ UNCHANGED <<clkInvoked, clkClicks>>
  /\ UNCHANGED NotClick

\* a later render: the effect has no dependencies and does not run again
Rerender ==
  /\ clkPhase = "mounted"
  /\ \E fn \in Callbacks, element \in Attached :
       /\ callbackRef' = fn
       /\ clkRendered' = fn
       /\ elementRef' = element
  /\ clkLast' = [op |-> "render"]
  /\ UNCHANGED <<clkPhase, clkListeners, clkInvoked, clkClicks>>
  /\ UNCHANGED NotClick

\* the cleanup of the effect; a ref React attached is reset, one the
\* caller set stays
Unmount ==
  /\ clkPhase = "mounted"
  /\ clkListeners' = removeEventListener(clkListeners, "click", "handleClickOutside", TRUE)
  /\ elementRef' \in {elementRef, "null"}
  /\ clkPhase' = "unmounted"
  /\ clkLast' = [op |-> "unmount"]
  /\ UNCHANGED <<callbackRef, clkRendered, clkInvoked, clkClicks>>
  /\ UNCHANGED NotClick

\* a click on a node of the document: the capture listeners of document run
Click ==
  /\ clkClicks < MaxClicks
  /\ \E target \in Nodes :
       /\ clkInvoked' = clkInvoked \o
            (IF \E l \in clkListeners : l.type = "click" /\ l.listener = "handleClickOutside"
             THEN handleClickOutside(elementRef, callbackRef, target)
             ELSE <<>>)
       /\ clkLast' = [op |-> "click", target |-> target]
  /\ clkClicks' = clkClicks + 1
  /\ UNCHANGED <<clkPhase, elementRef, callbackRef, clkRendered, clkListeners>>
  /\ UNCHANGED NotClick

NextClick == Mount \/ Rerender \/ Unmount \/ Click

SpecClick == InitClick /\ [][NextClick]_vars

\* C20: a click while the component is mounted invokes the onClickOutside
\* of the latest render once, with that click, if the ref holds an element
\* and the target is not inside it, and invokes nothing if the target is
\* inside it or the ref holds none; once the component is unmounted its
\* listener is off the document and a click invokes nothing.
C20_ClickOutside ==
  /\ [](clkPhase = "unmounted" => clkListeners = {})
  /\ [][ clkLast'.op = "click" =>
           clkInvoked' =
             IF /\ clkPhase = "mounted"
                /\ elementRef # "null"
                /\ elementRef # clkLast'.target
                /\ ~(elementRef = "box" /\ clkLast'.target = "inner")
             THEN Append(clkInvoked, [callback |-> clkRendered, target |-> clkLast'.target])
             ELSE clkInvoked
       ]_vars

\* two clicks outside box with a render of another callback between them,
\* while the component is mounted
C20_Witness ==
  /\ clkPhase = "mounted"
  /\ clkLast = [op |-> "click", target |-> "other"]
  /\ elementRef = "box"
  /\ Len(clkInvoked) = 2
  /\ clkInvoked[1].callback # clkInvoked[2].callback

(***************************************************************************)
(* useBeforeUnload.  Every run of the effect with enabled creates its own  *)
(* handleBeforeUnload; the listener of run n is <<"handleBeforeUnload",    *)
(* n>>.                                                                    *)
(***************************************************************************)
\* the effect of lines 29-40 that registers whatever enabled is
UnloadEffect_always(listeners, enabled, run) ==
  addEventListener(listeners, "beforeunload", <<"handleBeforeUnload", run>>, FALSE)

\* the effect of lines 29-40, run for the n-th time: the listeners of
\* window after it
UnloadEffect(listeners, enabled, run) ==
  IF ~enabled THEN listeners
  ELSE addEventListener(listeners, "beforeunload", <<"handleBeforeUnload", run>>, FALSE)

\* the cleanup the effect returned, if it returned one
UnloadCleanup(listeners, run) ==
  IF run = 0 THEN listeners
  ELSE removeEventListener(listeners, "beforeunload", <<"handleBeforeUnload", run>>, FALSE)

UnloadInit ==
  /\ buPhase = "new"
  /\ buEnabled = FALSE
  /\ buCallbackRef = ""
  /\ buRendered = ""
  /\ buListeners = {}
  /\ buEffects = 0
  /\ buCleanup = 0
  /\ buInvoked = <<>>
  /\ buLast = "none"
  /\ buRenders = 0
  /\ buEvents = 0

InitUnload == UnloadInit /\ NotUnloadIdle

\* the first render and the effect
MountUnload ==
  /\ buPhase = "new"
  /\ \E fn \in Callbacks, enabled \in BOOLEAN :
       /\ buCallbackRef' = fn
       /\ buRendered' = fn
       /\ buEnabled' = enabled
       /\ buListeners' = UnloadEffect(buListeners, enabled, buEffects + 1)
       /\ buCleanup' = IF enabled THEN buEffects + 1 ELSE 0
  /\ buEffects' = buEffects + 1
  /\ buPhase' = "mounted"
  /\ buLast' = "mount"
  /\ UNCHANGED <<buInvoked, buRenders, buEvents>>
  /\ UNCHANGED NotUnload

\* a later render; the effect runs again, after the cleanup of its run
\* before, only when enabled has changed
RerenderUnload ==
  /\ buPhase = "mounted"
  /\ buRenders < MaxRenders
  /\ \E fn \in Callbacks, enabled \in BOOLEAN :
       /\ buCallbackRef' = fn
       /\ buRendered' = fn
       /\ buEnabled' = enabled
       /\ IF enabled = buEnabled
          THEN UNCHANGED <<buListeners, buCleanup, buEffects>>
          ELSE /\ buListeners' = UnloadEffect(UnloadCleanup(buListeners, buCleanup),
                                              enabled, buEffects + 1)
               /\ buCleanup' = IF enabled THEN buEffects + 1 ELSE 0
               /\ buEffects' = buEffects + 1
  /\ buRenders' = buRenders + 1
  /\ buLast' = "render"
  /\ UNCHANGED <<buPhase, buInvoked, buEvents>>
  /\ UNCHANGED NotUnload

UnmountUnload ==
  /\ buPhase = "mounted"
  /\ buListeners' = UnloadCleanup(buListeners, buCleanup)
  /\ buCleanup' = 0
  /\ buPhase' = "unmounted"
  /\ buLast' = "unmount"
  /\ UNCHANGED <<buEnabled, buCallbackRef, buRendered, buEffects, buInvoked, buRenders, buEvents>>
  /\ UNCHANGED NotUnload

\* window receives a beforeunload event: every listener for it runs
\* handleBeforeUnload of lines 33-35
BeforeUnload ==
  /\ buEvents < MaxUnloads
  /\ LET heard == {l \in buListeners : l.type = "beforeunload"}
     IN buInvoked' = buInvoked \o
          [i \in 1..Cardinality(heard) |-> [callback |-> buCallbackRef, event |-> buEvents + 1]]
  /\ buEvents' = buEvents + 1
  /\ buLast' = "beforeunload"
  /\ UNCHANGED <<buPhase, buEnabled, buCallbackRef, buRendered, buListeners, buEffects,
                 buCleanup, buRenders>>
  /\ UNCHANGED NotUnload

NextUnload == MountUnload \/ RerenderUnload \/ UnmountUnload \/ BeforeUnload

SpecUnload == InitUnload /\ [][NextUnload]_vars

\* C21: window holds one beforeunload listener of the hook exactly while
\* the component is mounted with enabled = true and none otherwise; a
\* beforeunload event in that state invokes the callback of the latest
\* render once, with the event, and an event in any other state invokes
\* nothing.
C21_ListenerWhileEnabled ==
  /\ [](Cardinality(buListeners) = IF buPhase = "mounted" /\ buEnabled THEN 1 ELSE 0)
  /\ [][ buLast' = "beforeunload" =>
           buInvoked' =
             IF buPhase = "mounted" /\ buEnabled
             THEN Append(buInvoked, [callback |-> buRendered, event |-> buEvents'])
             ELSE buInvoked
       ]_vars

\* two events heard, with enabled switched off and on again and another
\* callback rendered between them
C21_Witness ==
  /\ buLast = "beforeunload"
  /\ buPhase = "mounted"
  /\ buEffects = 3
  /\ Len(buInvoked) = 2
  /\ buInvoked[1].callback # buInvoked[2].callback

(***************************************************************************)
(* useMediaQuery.  Every run of the effect has its own AbortController and *)
(* its own media query list; a change of a query reaches the listeners on  *)
(* every list of that query.                                               *)
(***************************************************************************)
Queries == {"(min-width: 600px)", "(orientation:landscape)"}

\* controller.abort() that removes nothing
Abort_never(listeners, run) == listeners

\* controller.abort() of a run of the effect: the listeners added with its
\* signal are removed
Abort(listeners, run) == {l \in listeners : l.signal # run}

\* lines 24-29: the listeners after run n of the effect
MediaEffect(listeners, query, run) ==
  listeners \cup {[query |-> query, type |-> "change", signal |-> run]}

\* setValue: a render follows when the state changes
SetValue(returns, old, new) == IF new = old THEN returns ELSE Append(returns, new)

MediaInit ==
  /\ mqPhase = "new"
  /\ mqMatches \in [Queries -> BOOLEAN]
  /\ mqQuery = ""
  /\ mqValue = FALSE
  /\ mqReturns = <<>>
  /\ mqListeners = {}
  /\ mqEffects = 0
  /\ mqLast = [op |-> "none"]
  /\ mqRenders = 0
  /\ mqChanges = 0

InitMedia == MediaInit /\ NotMediaIdle

\* the first render, which returns the initial state, and the effect
MountMedia ==
  /\ mqPhase = "new"
  /\ \E query \in Queries :
       /\ mqQuery' = query
       /\ mqListeners' = MediaEffect(mqListeners, query, mqEffects + 1)
       /\ mqValue' = mqMatches[query]
       /\ mqReturns' = SetValue(<<FALSE>>, FALSE, mqMatches[query])
  /\ mqEffects' = mqEffects + 1
  /\ mqPhase' = "mounted"
  /\ mqLast' = [op |-> "mount"]
  /\ UNCHANGED <<mqMatches, mqRenders, mqChanges>>
  /\ UNCHANGED NotMedia

\* a render with another query: it returns the state as it is, then the
\* cleanup of the run before and the effect run
RerenderMedia ==
  /\ mqPhase = "mounted"
  /\ mqRenders < MaxRenders
  /\ \E query \in Queries \ {mqQuery} :
       /\ mqQuery' = query
       /\ mqListeners' = MediaEffect(Abort(mqListeners, mqEffects), query, mqEffects + 1)
       /\ mqValue' = mqMatches[query]
       /\ mqReturns' = SetValue(Append(mqReturns, mqValue), mqValue, mqMatches[query])
  /\ mqEffects' = mqEffects + 1
  /\ mqRenders' = mqRenders + 1
  /\ mqLast' = [op |-> "render"]
  /\ UNCHANGED <<mqPhase, mqMatches, mqChanges>>
  /\ UNCHANGED NotMedia

UnmountMedia ==
  /\ mqPhase = "mounted"
  /\ mqListeners' = Abort(mqListeners, mqEffects)
  /\ mqPhase' = "unmounted"
  /\ mqLast' = [op |-> "unmount"]
  /\ UNCHANGED <<mqMatches, mqQuery, mqValue, mqReturns, mqEffects, mqRenders, mqChanges>>
  /\ UNCHANGED NotMedia

\* a change event of a query: the listeners on its lists call
\* setValue(event.matches)
MediaChange ==
  /\ mqChanges < MaxChanges
  /\ \E query \in Queries, matches \in BOOLEAN :
       /\ mqMatches' = [mqMatches EXCEPT ![query] = matches]
       /\ IF \E l \in mqListeners : l.query = query /\ l.type = "change"
          THEN /\ mqValue' = matches
               /\ mqReturns' = SetValue(mqReturns, mqValue, matches)
          ELSE UNCHANGED <<mqValue, mqReturns>>
       /\ mqLast' = [op |-> "change", query |-> query, matches |-> matches]
  /\ mqChanges' = mqChanges + 1
  /\ UNCHANGED <<mqPhase, mqQuery, mqListeners, mqEffects, mqRenders>>
  /\ UNCHANGED NotMedia

NextMedia == MountMedia \/ RerenderMedia \/ UnmountMedia \/ MediaChange

SpecMedia == InitMedia /\ [][NextMedia]_vars

\* C22: the first render returns false; once mounted, and once the effect
\* has run for a new query, the value is what the query matches; a change
\* event of the query of a mounted component makes the value the matches
\* of the event; a change event of a query the component has left, or
\* after the unmount, leaves the value alone; one listener, on the current
\* query, is registered while the component is mounted and none after.
C22_FollowsMediaQuery ==
  /\ [](mqReturns # <<>> => mqReturns[1] = FALSE)
  /\ [](mqLast.op \in {"mount", "render"} => mqValue = mqMatches[mqQuery])
  /\ [](mqPhase = "mounted" => mqReturns[Len(mqReturns)] = mqValue)
  /\ [](\A l \in mqListeners : l.query = mqQuery)
  /\ [](Cardinality(mqListeners) = IF mqPhase = "mounted" THEN 1 ELSE 0)
  /\ [][ mqLast'.op = "change" =>
           mqValue' = IF mqPhase = "mounted" /\ mqLast'.query = mqQuery
                      THEN mqLast'.matches ELSE mqValue
       ]_vars

\* the component moved from one query to the other, and then the query it
\* left changed to the opposite of the value
C22_Witness ==
  /\ mqPhase = "mounted"
  /\ mqEffects = 2
  /\ mqLast.op = "change"
  /\ mqLast.query # mqQuery
  /\ mqLast.matches # mqValue

(***************************************************************************)
(* useBodyClass and useBodyStyle.  Each run of an effect keeps what it     *)
(* read from the document and its cleanup writes that back.                *)
(***************************************************************************)
\* k.replace(/[A-Z]/g, (match) => `-${match.toLowerCase()}`)
KebabCase ==
  [backgroundColor |-> "background-color", color |-> "color", fontSize |-> "font-size"]

\* styleToString of string.ts:250-258; a style is a list of entries
styleToString(styles) ==
  LET kept == SelectSeq(styles, LAMBDA e : ~e.nullish)
  IN Join([i \in 1..Len(kept) |-> <<KebabCase[kept[i].key], ":">> \o kept[i].value], <<";">>)

\* the declarations of a style text: of two for one property the later
ParseStyle(text) ==
  LET pieces == SelectSeq(Split(text, ";"), LAMBDA p : Trim(p) # <<>>)
      all == [i \in 1..Len(pieces) |->
                [prop |-> Trim(Before(pieces[i], {":"})),
                 value |-> Trim(After(pieces[i], {":"}))]]
      last == {i \in 1..Len(all) : \A j \in (i + 1)..Len(all) : all[j].prop # all[i].prop}
      RECURSIVE Pick(_)
      Pick(i) == IF i > Len(all) THEN <<>>
                 ELSE (IF i \in last THEN <<all[i]>> ELSE <<>>) \o Pick(i + 1)
  IN Pick(1)

\* what style.cssText reads after the text was assigned to it
CssText(text) ==
  LET decls == ParseStyle(text)
  IN Join([i \in 1..Len(decls) |-> decls[i].prop \o <<":", " ">> \o decls[i].value \o <<";">>],
          <<" ">>)

\* the effect of useBodyClass (part_025:65-72) or of useBodyStyle
\* (use-body-style.ts:22-23): the document after it
BodyEffect(document, hook, args) ==
  IF hook = "useBodyClass"
  THEN [document EXCEPT
          !.body = IF args.body # <<>> THEN @ \o <<" ">> \o args.body ELSE @,
          !.html = IF args.html # <<>> THEN @ \o <<" ">> \o args.html ELSE @]
  ELSE [document EXCEPT !.css = CssText(@ \o styleToString(args.style))]

\* the cleanup of a run of the effect that read old from the document
BodyCleanup(document, hook, old) ==
  IF hook = "useBodyClass"
  THEN [document EXCEPT !.body = old.body, !.html = old.html]
  ELSE [document EXCEPT !.css = CssText(old.css)]

BodyHooks == {"useBodyClass", "useBodyStyle"}

BodyArgs(hook) ==
  IF hook = "useBodyClass"
  THEN {[body |-> <<"a">>, html |-> <<>>, style |-> <<>>],
        [body |-> <<"b">>, html |-> <<"h">>, style |-> <<>>],
        [body |-> <<>>, html |-> <<>>, style |-> <<>>]}
  ELSE {[body |-> <<>>, html |-> <<>>,
         style |-> <<[key |-> "backgroundColor", value |-> <<"red">>, nullish |-> FALSE]>>],
        [body |-> <<>>, html |-> <<>>,
         style |-> <<[key |-> "color", value |-> <<"white">>, nullish |-> FALSE],
                     [key |-> "fontSize", value |-> <<>>, nullish |-> TRUE]>>]}

NoArgs == [body |-> <<>>, html |-> <<>>, style |-> <<>>]

NoDocument == [body |-> <<>>, html |-> <<>>, css |-> <<>>]

Documents ==
  [body : {<<>>, <<"existing-body">>}, html : {<<>>},
   css : {<<>>, CssText(<<"color", ":", "black">>)}]

BodyInit ==
  /\ bdDocument \in Documents
  /\ bdOriginal = bdDocument
  /\ bdComponents = [i \in 1..MaxComponents |->
                       [phase |-> "new", hook |-> "", args |-> NoArgs, old |-> NoDocument]]
  /\ bdLast = "none"
  /\ bdRenders = 0

InitBody == BodyInit /\ NotBodyIdle

\* a component renders for the first time and its effect runs
MountBody ==
  /\ \E i \in 1..MaxComponents, hook \in BodyHooks :
       /\ bdComponents[i].phase = "new"
       /\ \E args \in BodyArgs(hook) :
            /\ bdDocument' = BodyEffect(bdDocument, hook, args)
            /\ bdComponents' = [bdComponents EXCEPT ![i] =
                 [phase |-> "mounted", hook |-> hook, args |-> args, old |-> bdDocument]]
  /\ bdLast' = "mount"
  /\ UNCHANGED <<bdOriginal, bdRenders>>
  /\ UNCHANGED NotBody

\* a component renders with other arguments: the cleanup of the run
\* before, then the effect
RerenderBody ==
  /\ bdRenders < MaxBodyRenders
  /\ \E i \in 1..MaxComponents :
       /\ bdComponents[i].phase = "mounted"
       /\ \E args \in BodyArgs(bdComponents[i].hook) \ {bdComponents[i].args} :
            LET c == bdComponents[i]
                cleaned == BodyCleanup(bdDocument, c.hook, c.old)
            IN /\ bdDocument' = BodyEffect(cleaned, c.hook, args)
               /\ bdComponents' = [bdComponents EXCEPT ![i] =
                    [phase |-> "mounted", hook |-> c.hook, args |-> args, old |-> cleaned]]
  /\ bdRenders' = bdRenders + 1
  /\ bdLast' = "render"
  /\ UNCHANGED bdOriginal
  /\ UNCHANGED NotBody

UnmountBody ==
  /\ \E i \in 1..MaxComponents :
       /\ bdComponents[i].phase = "mounted"
       /\ bdDocument' = BodyCleanup(bdDocument, bdComponents[i].hook, bdComponents[i].old)
       /\ bdComponents' = [bdComponents EXCEPT ![i].phase = "unmounted"]
  /\ bdLast' = "unmount"
  /\ UNCHANGED <<bdOriginal, bdRenders>>
  /\ UNCHANGED NotBody

NextBody == MountBody \/ RerenderBody \/ UnmountBody

SpecBody == InitBody /\ [][NextBody]_vars

\* C23: once every component that mounted has unmounted, the className
\* of body and of html and the style.cssText of body are what they were
\* before the first of them mounted.
C23_RestoredAfterAll ==
  ( /\ \E i \in 1..MaxComponents : bdComponents[i].phase = "unmounted"
    /\ \A i \in 1..MaxComponents : bdComponents[i].phase # "mounted" )
    => bdDocument = bdOriginal

(***************************************************************************)
(* asyncCallback.  Delays are counted in RandomSteps-ths of a millisecond  *)
(* so that min + Math.random() * (max - min) is an integer.                *)
(***************************************************************************)
DefaultMinDelay == 20

DefaultDelaySpread == 80

\* an argument that was left out, and one that was given
LeftOut == [given |-> FALSE, n |-> 0]

Delay(n) == [given |-> TRUE, n |-> n]

\* minDelay = 20, maxDelay = minDelay + 80
MinDelay(args) == IF args.minDelay.given THEN args.minDelay.n ELSE DefaultMinDelay

MaxDelay(args) ==
  IF args.maxDelay.given THEN args.maxDelay.n ELSE MinDelay(args) + DefaultDelaySpread

\* randomFloat(min, max) with both arguments, for Math.random() = k / RandomSteps
randomFloat(min, max, k) == min * RandomSteps + k * (max - min)

\* clearTimeout that clears nothing
clearTimeout_never(timers, timerId) == timers

clearTimeout(timers, timerId) == timers \ {timerId}

AsyncArgs ==
  [minDelay : {LeftOut, Delay(0), Delay(100)}, maxDelay : {LeftOut, Delay(10), Delay(1000)}]

AsyncInit ==
  /\ acCall = [made |-> FALSE]
  /\ acDelay = 0
  /\ acTimers = {}
  /\ acInvoked = 0
  /\ acCancels = 0
  /\ acLast = "none"

InitAsync == AsyncInit /\ NotAsyncIdle

\* asyncCallback(callback, minDelay, maxDelay): lines 28-29
CallAsyncCallback ==
  /\ ~acCall.made
  /\ \E args \in AsyncArgs, k \in 0..(RandomSteps - 1) :
       /\ acCall' = [made |-> TRUE, minDelay |-> args.minDelay, maxDelay |-> args.maxDelay]
       /\ acDelay' = randomFloat(MinDelay(args), MaxDelay(args), k)
  /\ acTimers' = acTimers \cup {"timerId"}
  /\ acLast' = "call"
  /\ UNCHANGED <<acInvoked, acCancels>>
  /\ UNCHANGED NotAsync

\* the timer fires: setTimeout invokes the callback
TimerFires ==
  /\ "timerId" \in acTimers
  /\ acTimers' = acTimers \ {"timerId"}
  /\ acInvoked' = acInvoked + 1
  /\ acLast' = "fire"
  /\ UNCHANGED <<acCall, acDelay, acCancels>>
  /\ UNCHANGED NotAsync

\* the returned function is called: line 30
Cancel ==
  /\ acCall.made
  /\ acCancels < MaxCancels
  /\ acTimers' = clearTimeout(acTimers, "timerId")
  /\ acCancels' = acCancels + 1
  /\ acLast' = "cancel"
  /\ UNCHANGED <<acCall, acDelay, acInvoked>>
  /\ UNCHANGED NotAsync

NextAsync == CallAsyncCallback \/ TimerFires \/ Cancel

SpecAsync == InitAsync /\ [][NextAsync]_vars

\* the callback is invoked at most once, only by the timer, and never
\* once the returned function was called; a call of the returned function
\* invokes nothing
InvokedOnceUnlessCancelled ==
  /\ [](acInvoked <= 1)
  /\ [][ acInvoked' # acInvoked =>
           acLast' = "fire" /\ acCancels = 0 /\ acInvoked = 0 /\ acInvoked' = 1 ]_vars
  /\ [][ acLast' = "cancel" => acInvoked' = acInvoked ]_vars

\* the delay d given to setTimeout for these arguments has min <= d <= max
DelayInRange(args) ==
  /\ MinDelay(args) * RandomSteps <= acDelay
  /\ acDelay <= MaxDelay(args) * RandomSteps

RECURSIVE OneAtATime(_, _)
\* the returned string of a call is the base of the call with the next
\* source; a call that throws ends the chain
OneAtATime(r, rest) ==
  IF rest = <<>> \/ r.threw THEN r
  ELSE OneAtATime(encodeUrlParams(StringUrl(r.value), NoUrl, <<Head(rest)>>), Tail(rest))

\* C25: a call with the sources s1..sn, n >= 1, returns (or throws) what
\* the calls with one source each return, the first on the base and each
\* later one on the string the call before it returned.
C25_SourcesOneAtATime ==
  (pc = "returned" /\ sources # <<>>) =>
    LET chain == OneAtATime(encodeUrlParams(url, Constructed(url), <<Head(sources)>>),
                            Tail(sources))
        whole == encodeUrlParams(url, Constructed(url), sources)
    IN /\ result.threw = whole.threw /\ result.value = whole.value
       /\ chain.threw = whole.threw
       /\ chain.value = whole.value

(***************************************************************************)
(* getIn and putIn.  A value is a node: an object with its own keys in     *)
(* insertion order, an array with its items, a function or a primitive; an *)
(* object and an array inherit the properties of their prototype.  A key   *)
(* is the text between two dots of a path, possibly empty.                 *)
(***************************************************************************)
UndefinedNode == [t |-> "undefined", n |-> 0, keys |-> <<>>, kids |-> <<>>]

NullNode == [t |-> "null", n |-> 0, keys |-> <<>>, kids |-> <<>>]

NumberNode(n) == [t |-> "number", n |-> n, keys |-> <<>>, kids |-> <<>>]

ObjectNode(keys, kids) == [t |-> "object", n |-> 0, keys |-> keys, kids |-> kids]

ArrayNode(kids) == [t |-> "array", n |-> 0, keys |-> <<>>, kids |-> kids]

\* !isNaN(Number(key)) for the keys of the model: Number("") is 0
IsNumericKey(key) == key \in {<<>>, <<"0">>, <<"1">>, <<"2">>}

\* Number(key) of a numeric key
KeyNumber(key) ==
  CASE key = <<"1">> -> 1
    [] key = <<"2">> -> 2
    [] OTHER -> 0

\* acc[index] of an array
ArrayGet(node, index) ==
  IF index + 1 <= Len(node.kids) THEN node.kids[index + 1] ELSE UndefinedNode

\* a function, such as Object or Array
FunctionNode == [t |-> "function", n |-> 0, keys |-> <<>>, kids |-> <<>>]

\* Object.prototype and Array.prototype, the objects every object literal
\* and every array inherit from
ObjectPrototype == [t |-> "object", n |-> 1, keys |-> <<>>, kids |-> <<>>]

ArrayPrototype == [t |-> "array", n |-> 2, keys |-> <<>>, kids |-> <<>>]

\* the internal slot that holds the prototype of an object once the
\* __proto__ setter has replaced it
ProtoSlot == <<"[[Prototype]]">>

OwnHas(node, key) == \E i \in 1..Len(node.keys) : node.keys[i] = key

OwnGet(node, key) == node.kids[CHOOSE i \in 1..Len(node.keys) : node.keys[i] = key]

\* the prototype of a value
PrototypeOf(node) ==
  IF node = ObjectPrototype THEN NullNode
  ELSE IF node = ArrayPrototype THEN ObjectPrototype
  ELSE IF node.t = "array" THEN ArrayPrototype
  ELSE IF node.t # "object" THEN NullNode
  ELSE IF OwnHas(node, ProtoSlot) THEN OwnGet(node, ProtoSlot)
  ELSE ObjectPrototype

\* the properties the built-in prototypes hold themselves
BuiltIn(node, key) ==
  \/ node \in {ObjectPrototype, ArrayPrototype} /\ key = <<"constructor">>
  \/ node = ObjectPrototype /\ key = <<"__proto__">>

RECURSIVE ObjectHas(_, _)
\* key in acc: an own property or one of the prototype chain
ObjectHas(node, key) ==
  \/ OwnHas(node, key)
  \/ BuiltIn(node, key)
  \/ LET proto == PrototypeOf(node)
     IN proto.t \in {"object", "array"} /\ ObjectHas(proto, key)

RECURSIVE Lookup(_, _, _)
\* the [[Get]] of a key that walks the prototype chain; the __proto__
\* getter of Object.prototype returns the prototype of the receiver
Lookup(node, key, receiver) ==
  IF OwnHas(node, key) THEN OwnGet(node, key)
  ELSE IF BuiltIn(node, key)
  THEN IF key = <<"__proto__">> THEN PrototypeOf(receiver) ELSE FunctionNode
  ELSE LET proto == PrototypeOf(node)
       IN IF proto.t \in {"object", "array"} THEN Lookup(proto, key, receiver)
          ELSE UndefinedNode

\* acc[key] of an object or of an array with a key that is no index
ObjectGet(node, key) == Lookup(node, key, node)

\* acc[index] = value: an index past the end leaves holes, which read as
\* undefined
ArraySet(node, index, value) ==
  LET length == IF index + 1 > Len(node.kids) THEN index + 1 ELSE Len(node.kids)
  IN [node EXCEPT !.kids =
        [i \in 1..length |-> IF i = index + 1 THEN value
                             ELSE IF i <= Len(node.kids) THEN node.kids[i]
                             ELSE UndefinedNode]]

\* acc[key] = value: an own property is replaced; the __proto__ setter
\* replaces the prototype by an object or null and ignores any other
\* value; any other key becomes an own property
ObjectSet(node, key, value) ==
  IF OwnHas(node, key)
  THEN [node EXCEPT !.kids = [i \in 1..Len(node.kids) |->
                                IF node.keys[i] = key THEN value ELSE node.kids[i]]]
  ELSE IF key = <<"__proto__">> /\ ObjectHas(node, key)
  THEN IF value.t \notin {"object", "array", "null"} THEN node
       ELSE IF OwnHas(node, ProtoSlot)
       THEN [node EXCEPT !.kids = [i \in 1..Len(node.kids) |->
                                     IF node.keys[i] = ProtoSlot THEN value
                                     ELSE node.kids[i]]]
       ELSE [node EXCEPT !.keys = Append(@, ProtoSlot), !.kids = Append(@, value)]
  ELSE [node EXCEPT !.keys = Append(@, key), !.kids = Append(@, value)]

\* line 136: isNumeric ? acc[index] : acc[key]
ChildOf(node, key) ==
  IF IsNumericKey(key) THEN ArrayGet(node, KeyNumber(key)) ELSE ObjectGet(node, key)

\* lines 129-132 and 143-146: isNumeric ? acc[index] = value : acc[key] = value
SetChild(node, key, value) ==
  IF IsNumericKey(key) THEN ArraySet(node, KeyNumber(key), value)
  ELSE ObjectSet(node, key, value)

RECURSIVE NodeAt(_, _)
\* acc: the node the keys walked so far lead to
NodeAt(object, at) ==
  IF at = <<>> THEN object ELSE NodeAt(ChildOf(object, Head(at)), Tail(at))

RECURSIVE AssignIn(_, _, _, _)
\* the object after the assignment to a key of the node at that place
AssignIn(object, at, key, value) ==
  IF at = <<>> THEN SetChild(object, key, value)
  ELSE SetChild(object, Head(at), AssignIn(ChildOf(object, Head(at)), Tail(at), key, value))

\* line 142: isNaN(Number(keys[keyIndex + 1])) ? {} : []
NewChild(nextKey) ==
  IF IsNumericKey(nextKey) THEN ArrayNode(<<>>) ELSE ObjectNode(<<>>, <<>>)

PutThrew(object) == [threw |-> TRUE, object |-> object]

PutDone(object) == [threw |-> FALSE, object |-> object]

RECURSIVE PutInReduce(_, _, _, _, _)
\* lines 110-147 from the key at keyIndex on; object is the caller's
\* object as the keys before have left it
PutInReduce(object, at, keys, keyIndex, value) ==
  LET key == keys[keyIndex]
      acc == NodeAt(object, at)
      isNumeric == IsNumericKey(key)
  IN IF acc.t = "array" /\ ~isNumeric THEN PutThrew(object)
     ELSE IF acc.t = "object" /\ isNumeric THEN PutThrew(object)
     ELSE IF acc.t \notin {"array", "object"} THEN PutThrew(object)
     ELSE IF keyIndex = Len(keys) THEN PutDone(AssignIn(object, at, key, value))
     ELSE IF ChildOf(acc, key) # UndefinedNode
     THEN PutInReduce(object, Append(at, key), keys, keyIndex + 1, value)
     ELSE PutInReduce(AssignIn(object, at, key, NewChild(keys[keyIndex + 1])),
                      Append(at, key), keys, keyIndex + 1, value)

putIn(object, path, value) ==
  IF path = <<>> THEN PutDone(object)
  ELSE PutInReduce(object, <<>>, Split(path, "."), 1, value)

RECURSIVE GetInReduce(_, _)
\* lines 23-33
GetInReduce(acc, keys) ==
  IF keys = <<>> THEN acc
  ELSE LET key == Head(keys)
       IN GetInReduce(
            IF acc.t = "array" /\ IsNumericKey(key) THEN ArrayGet(acc, KeyNumber(key))
            ELSE IF acc.t \in {"object", "array"} /\ ObjectHas(acc, key)
            THEN ObjectGet(acc, key)
            ELSE UndefinedNode,
            Tail(keys))

getIn(object, path) == GetInReduce(object, Split(path, "."))

(***************************************************************************)
(* One putIn, and the getIn of the same path after it.                     *)
(***************************************************************************)
PathKeys == {<<>>, <<"0">>, <<"1">>, <<"a">>, <<"b">>}

\* the paths of up to MaxPath keys, and the empty path
PutPaths == {<<>>} \cup {Join(keys, <<".">>) : keys \in SeqsUpTo(PathKeys, MaxPath) \ {<<>>}}

\* paths with a key that every object inherits: as the last key, or before
\* one more key
InheritedPaths ==
  {Join(head \o tail, <<".">>) :
     head \in SeqsUpTo({<<"a">>, <<"b">>}, MaxPath - 2),
     tail \in { << <<"constructor">> >>, << <<"__proto__">> >>,
                << <<"constructor">>, <<"a">> >>, << <<"__proto__">>, <<"0">> >> }}

PutObjects ==
  { ObjectNode(<<>>, <<>>),
    ObjectNode(<< <<"a">> >>, <<ObjectNode(<< <<"b">> >>, <<NumberNode(42)>>)>>),
    ObjectNode(<< <<"a">> >>,
               <<ArrayNode(<<ObjectNode(<< <<"b">> >>, <<NumberNode(1)>>)>>)>>),
    ObjectNode(<< <<"a">>, <<"b">> >>, <<NullNode, NumberNode(7)>>),
    ObjectNode(<< <<"b">>, <<"a">> >>, <<UndefinedNode, ObjectNode(<<>>, <<>>)>>),
    ArrayNode(<<>>),
    ArrayNode(<<ArrayNode(<<NumberNode(1)>>), NullNode>>) }

PutValues == {NumberNode(5), UndefinedNode, ObjectNode(<< <<"d">> >>, <<NumberNode(123)>>)}

PutInit ==
  /\ ptGiven \in PutObjects
  /\ ptObject = ptGiven
  /\ ptPath \in PutPaths \cup InheritedPaths
  /\ ptValue \in PutValues
  /\ ptPc = "args"
  /\ ptGot = UndefinedNode

InitPut == PutInit /\ NotPutIdle

CallPutIn ==
  /\ ptPc = "args"
  /\ LET r == putIn(ptObject, ptPath, ptValue)
     IN /\ ptObject' = r.object
        /\ ptPc' = IF r.threw THEN "threw" ELSE "returned"
  /\ UNCHANGED <<ptGiven, ptPath, ptValue, ptGot>>
  /\ UNCHANGED NotPut

CallGetIn ==
  /\ ptPc = "returned"
  /\ ptGot' = getIn(ptObject, ptPath)
  /\ ptPc' = "read"
  /\ UNCHANGED <<ptObject, ptGiven, ptPath, ptValue>>
  /\ UNCHANGED NotPut

NextPut == CallPutIn \/ CallGetIn

SpecPut == InitPut /\ [][NextPut]_vars

\* the keys of the path of the call
PutKeys == Split(ptPath, ".")

\* a key as the place it names: "" names index 0
PlaceOf(key) == IF key = <<>> THEN <<"0">> ELSE key

IsPrefix(p, q) == Len(p) <= Len(q) /\ SubSeq(q, 1, Len(p)) = p

\* the places off the path: neither above the leaf nor below it
OffPath ==
  LET place == [i \in 1..Len(PutKeys) |-> PlaceOf(PutKeys[i])]
  IN {q \in SeqsUpTo({<<"0">>, <<"1">>, <<"a">>, <<"b">>, <<"d">>}, MaxPath) \ {<<>>} :
        ~IsPrefix(q, place) /\ ~IsPrefix(place, q)}

\* C26: after a putIn(o, p, v) with a non-empty path that did not throw,
\* getIn(o, p) returns v; every container that was missing on the way is
\* an array when the key after it is numeric and an object otherwise;
\* every place of o off the path holds what it held; and putIn with the
\* empty path leaves o as it was.
C26_PutGetRoundTrip ==
  /\ (ptPc = "read" /\ ptPath # <<>>) =>
       /\ ptGot = ptValue
       /\ \A k \in 1..(Len(PutKeys) - 1) :
            GetInReduce(ptGiven, SubSeq(PutKeys, 1, k)) = UndefinedNode =>
              GetInReduce(ptObject, SubSeq(PutKeys, 1, k)).t =
                IF IsNumericKey(PutKeys[k + 1]) THEN "array" ELSE "object"
       /\ \A q \in OffPath : GetInReduce(ptObject, q) = GetInReduce(ptGiven, q)
       /\ ptObject.t = ptGiven.t
  /\ (ptPc \in {"returned", "read"} /\ ptPath = <<>>) => ptObject = ptGiven

\* C27: when putIn throws, the object is what it was before the call: no
\* container was created on the way.
C27_UnchangedOnThrow ==
  ptPc = "threw" => ptObject = ptGiven

(***************************************************************************)
(* The comparators as orderings: comparators.ts.  A string is one of a few *)
(* texts: "", "a", "b", "B", and "e" with an acute accent in its composed  *)
(* and in its decomposed form, which a collation takes for the same.       *)
(***************************************************************************)
StringValue(i) == [kind |-> "string", n |-> i]

StringValues == {StringValue(i) : i \in 0..5}

\* the place of a text in the collation of localeCompare
CollationKey(x) == IF x.n = 5 THEN 4 ELSE x.n

\* target.localeCompare(other): negative, 0 or positive by the collation
localeCompare(target, other) ==
  IF CollationKey(target) < CollationKey(other) THEN Integer(-1)
  ELSE IF CollationKey(target) > CollationKey(other) THEN Integer(1)
  ELSE Integer(0)

\* a string in a condition: the empty string is false, as null and
\* undefined are
IsTruthy(x) == x.kind = "string" /\ x.n # 0

compareStrings(target, other) ==
  IF IsTruthy(target)
  THEN (IF IsTruthy(other) THEN localeCompare(target, other) ELSE Integer(-1))
  ELSE IF IsTruthy(other) THEN Integer(1) ELSE Integer(0)

compareStringsReversed(target, other) ==
  IF IsTruthy(target)
  THEN (IF IsTruthy(other) THEN localeCompare(other, target) ELSE Integer(-1))
  ELSE IF IsTruthy(other) THEN Integer(1) ELSE Integer(0)

OrderFns == {"compareBooleansAsc", "compareBooleansDesc", "compareNumbersAsc",
             "compareNumbersDesc", "compareStrings", "compareStringsReversed"}

\* the value type of a comparator, with null and undefined
OrderValues(fn) ==
  Empties \cup
    (CASE fn \in {"compareBooleansAsc", "compareBooleansDesc"} -> Booleans
       [] fn \in {"compareNumbersAsc", "compareNumbersDesc"} -> Numbers
       [] OTHER -> StringValues)

\* fn(a, b)
Compare(fn, a, b) ==
  CASE fn = "compareBooleansAsc" -> compareBooleansAsc(a, b)
    [] fn = "compareBooleansDesc" -> compareBooleansDesc(a, b)
    [] fn = "compareNumbersAsc" -> compareNumbersAsc(a, b)
    [] fn = "compareNumbersDesc" -> compareNumbersDesc(a, b)
    [] fn = "compareStrings" -> compareStrings(a, b)
    [] OTHER -> compareStringsReversed(a, b)

OrderInit ==
  /\ cmpFn \in OrderFns
  /\ cmpTarget \in OrderValues(cmpFn)
  /\ cmpOther \in OrderValues(cmpFn)
  /\ cmpPc = "args"
  /\ cmpResult = Integer(0)

InitOrder == OrderInit /\ NotCmpIdle

CallCompareStrings ==
  /\ cmpPc = "args" /\ cmpFn = "compareStrings"
  /\ cmpResult' = compareStrings(cmpTarget, cmpOther)
  /\ cmpPc' = "returned"
  /\ UNCHANGED <<cmpTarget, cmpOther, cmpFn>>
  /\ UNCHANGED NotCmp

CallCompareStringsReversed ==
  /\ cmpPc = "args" /\ cmpFn = "compareStringsReversed"
  /\ cmpResult' = compareStringsReversed(cmpTarget, cmpOther)
  /\ cmpPc' = "returned"
  /\ UNCHANGED <<cmpTarget, cmpOther, cmpFn>>
  /\ UNCHANGED NotCmp

NextOrder ==
  \/ CallCompareBooleansAsc
  \/ CallCompareBooleansDesc
  \/ CallCompareNumbersAsc
  \/ CallCompareNumbersDesc
  \/ CallCompareStrings
  \/ CallCompareStringsReversed

SpecOrder == InitOrder /\ [][NextOrder]_vars

\* r <= 0
IsAtMostZero(r) == IsNegative(r) \/ IsZero(r)

\* sign(r) = -sign(q); the sign of NaN is NaN, which equals nothing
OppositeSign(r, q) ==
  /\ r.kind # "NaN" /\ q.kind # "NaN"
  /\ IsNegative(r) <=> IsPositive(q)
  /\ IsPositive(r) <=> IsNegative(q)

\* the comparator that sorts the other way round
Counterpart(fn) ==
  CASE fn = "compareBooleansAsc" -> "compareBooleansDesc"
    [] fn = "compareBooleansDesc" -> "compareBooleansAsc"
    [] fn = "compareNumbersAsc" -> "compareNumbersDesc"
    [] fn = "compareNumbersDesc" -> "compareNumbersAsc"
    [] fn = "compareStrings" -> "compareStringsReversed"
    [] OTHER -> "compareStrings"

\* a value that the comparator does not take for empty
IsNonEmpty(fn, x) ==
  IF fn \in {"compareStrings", "compareStringsReversed"} THEN IsTruthy(x)
  ELSE ~IsEmpty(x)

\* C28: each of the six comparators is a consistent ordering on its value
\* type with null and undefined: the sign of cmp(a, b) is the opposite of
\* the sign of cmp(b, a), cmp(a, a) is 0, cmp(a, b) <= 0 and cmp(b, c) <= 0
\* give cmp(a, c) <= 0; and a Desc or Reversed comparator orders two
\* non-empty values the opposite way to its counterpart.
C28_ConsistentOrdering ==
  cmpPc = "returned" =>
    /\ OppositeSign(cmpResult, Compare(cmpFn, cmpOther, cmpTarget))
    /\ cmpTarget = cmpOther => IsZero(cmpResult)
    /\ \A c \in OrderValues(cmpFn) :
         (IsAtMostZero(cmpResult) /\ IsAtMostZero(Compare(cmpFn, cmpOther, c)))
           => IsAtMostZero(Compare(cmpFn, cmpTarget, c))
    /\ (IsNonEmpty(cmpFn, cmpTarget) /\ IsNonEmpty(cmpFn, cmpOther)) =>
         LET q == Compare(Counterpart(cmpFn), cmpTarget, cmpOther)
         IN /\ IsNegative(cmpResult) <=> IsPositive(q)
            /\ IsPositive(cmpResult) <=> IsNegative(q)
            /\ IsZero(cmpResult) <=> IsZero(q)

(***************************************************************************)
(* getCookies: cookies.ts.  The object it returns is its keys in insertion *)
(* order and their values.  The cookies of the page are assigned to        *)
(* document.cookie as strings, as a script or a response header does.      *)
(***************************************************************************)
EmptyObject == [keys |-> <<>>, values |-> <<>>]

\* cookies[name] = value
PutCookie(cookies, name, value) ==
  IF \E i \in 1..Len(cookies.keys) : cookies.keys[i] = name
  THEN [cookies EXCEPT !.values = [i \in 1..Len(@) |->
                                     IF cookies.keys[i] = name THEN value ELSE @[i]]]
  ELSE [keys |-> Append(cookies.keys, name), values |-> Append(cookies.values, value)]

\* const [name, value] = cookie.split("="): the second piece only
SecondPiece(cookie) ==
  LET pieces == Split(cookie, "=")
  IN IF Len(pieces) >= 2 THEN pieces[2]
     ELSE <<"u", "n", "d", "e", "f", "i", "n", "e", "d">>

RECURSIVE GetCookiesReduce(_, _)
\* the reduce of lines 73-79 over the pieces of document.cookie
GetCookiesReduce(cookies, pieces) ==
  IF pieces = <<>> THEN cookies
  ELSE LET cookie == Head(pieces)
       IN GetCookiesReduce(
            IF cookie # <<>>
            THEN PutCookie(cookies, Split(cookie, "=")[1],
                           decodeURIComponent(SecondPiece(cookie)))
            ELSE cookies,
            Tail(pieces))

getCookies(location, jar) ==
  IF location.isSSR THEN CookieThrew(jar)
  ELSE CookieDone(GetCookiesReduce(EmptyObject, SplitCookies(DocumentCookie(location, jar))),
                  <<>>, jar)

\* the strings assigned to document.cookie
AssignedCookies ==
  { <<"u", "=", "b">>,
    <<"u", "n", "=", "a", "%20", "%3D">>,
    <<"t", "=", "a", "=", "b">>,
    <<"u", "=", "c", ";", " ", "Path", "=", "/">>,
    <<"u", "n", "=", "x", ";", " ", "Max-Age", "=", "0">> }

ReadPages ==
  [isSSR : {FALSE}, protocol : {"https:"}, hostname : {<<"x", "com">>},
   pathname : {<<"/">>, <<"/", "x", "/", "y">>}]

InitCookieRead ==
  /\ ckLocation \in ReadPages
  /\ CookieInit
  /\ NotCookieIdle

\* document.cookie = cookie
AssignDocumentCookie ==
  /\ ckCalls < MaxCalls + 1
  /\ \E cookie \in AssignedCookies :
       /\ ckCall' = CookieCall("document.cookie", PairName(cookie), PairValue(cookie),
                               NoOptions, NotGiven)
       /\ ckWrites' = <<cookie>>
       /\ ckJar' = Assign(ckLocation, ckJar, cookie)
       /\ ckReturn' = [threw |-> FALSE, value |-> <<>>]
       /\ ckCalls' = ckCalls + 1
       /\ UNCHANGED ckLocation
       /\ UNCHANGED NotCookie

\* getCookies only reads: the cookies stay as they are
CallGetCookies ==
  /\ ckCall.fn # "getCookies"
  /\ LET r == getCookies(ckLocation, ckJar)
     IN /\ ckCall' = CookieCall("getCookies", <<>>, <<>>, NoOptions, NotGiven)
        /\ ckReturn' = [threw |-> r.threw, value |-> r.value]
        /\ UNCHANGED <<ckLocation, ckJar, ckWrites, ckCalls>>
        /\ UNCHANGED NotCookie

NextCookieRead == AssignDocumentCookie \/ CallGetCookies

SpecCookieRead == InitCookieRead /\ [][NextCookieRead]_vars

\* the names of the cookies the page sees, and whether no two are the same
SeenNames == {Visible(ckLocation, ckJar)[i].name : i \in 1..Len(Visible(ckLocation, ckJar))}

UniqueNames == Cardinality(SeenNames) = Len(Visible(ckLocation, ckJar))

\* names that may be asked for: those of the cookies and one of no cookie
AskedNames == {<<"u">>, <<"u", "n">>, <<"t">>, <<"z">>}

\* the keys of an object, and the value of one of them
KeysOf(object) == {object.keys[i] : i \in 1..Len(object.keys)}

ValueOf(object, key) ==
  object.values[CHOOSE i \in 1..Len(object.keys) : object.keys[i] = key]

\* C29: as the cookies stand with no two of the same name, getCookies() has
\* for every name that is present the value getCookie returns for it, its
\* keys are the names for which hasCookie is true, and it has no key for a
\* name that is absent.
C29_GetCookiesAgrees ==
  (ckCall.fn = "getCookies" /\ UniqueNames) =>
    /\ ~ckReturn.threw
    /\ \A n \in SeenNames :
         /\ n \in KeysOf(ckReturn.value)
         /\ ValueOf(ckReturn.value, n) = Got(n)
    /\ KeysOf(ckReturn.value) \cap AskedNames = {n \in AskedNames : Has(n)}
    /\ \A n \in AskedNames \ SeenNames : n \notin KeysOf(ckReturn.value)

====
